---------------------------- MODULE Spec2Model ----------------------------
(***************************************************************************)
(* A model of the Component Base of ne-aqua-components                     *)
(* (src/src/webcomponentbase.js), of the parts of Toolbelt it uses         *)
(* (src/unnamed/part_004) and of the AquaButton widget                     *)
(* (src/src/aqua-button.js) as far as it overrides the base's reactions.   *)
(*                                                                         *)
(* JavaScript is single-threaded and every lifecycle reaction runs to      *)
(* completion, so each action below is one whole call: a public method     *)
(* called by client code, or a reaction called by the host renderer.       *)
(* A call is computed on a record m ("the machine") that holds the         *)
(* component's fields, the DOM the component touches and the trace of the  *)
(* call (render() invocations, reactions, handler calls, a pending         *)
(* exception); the action then stores the machine in the variables.        *)
(***************************************************************************)
EXTENDS Integers, Sequences, FiniteSets, TLC

(***************************************************************************)
(* Bounds of the model.                                                    *)
(***************************************************************************)
\* the number of commands ever handed to queueCommand in one behaviour
MaxCommands == 3
\* the number of mount reactions in one behaviour
MaxMounts == 2
\* the number of registrations the listeners registry holds at once
MaxListeners == 2
\* the length of the names given to normalizeProp and denormalizeProp
MaxNameLen == 3
\* the number of nodes client code appends to the shadow root
MaxChildren == 2
\* the number of top-level elements of the markup template() returns
MaxTemplate == 3
\* the number of buildDOM calls whose elements the shadow root holds
MaxBuilds == 3

(***************************************************************************)
(* JavaScript values.  Strings stand for themselves; the values that are   *)
(* not strings are tagged, so that String(v) is a real conversion.         *)
(***************************************************************************)
Null == "<null>"
Undefined == "<undefined>"
True == "<true>"
False == "<false>"

\* String(v), as setAttribute applies it to its value argument
JsString(v) ==
    CASE v = Null -> "null"
      [] v = Undefined -> "undefined"
      [] v = True -> "true"
      [] v = False -> "false"
      [] OTHER -> v

(***************************************************************************)
(* Names are sequences of one-character strings, so that the case          *)
(* conversions of Toolbelt can be computed character by character.         *)
(***************************************************************************)
LowerLetters ==
    << "a", "b", "c", "d", "e", "f", "g", "h", "i", "j", "k", "l", "m",
       "n", "o", "p", "q", "r", "s", "t", "u", "v", "w", "x", "y", "z" >>

UpperLetters ==
    << "A", "B", "C", "D", "E", "F", "G", "H", "I", "J", "K", "L", "M",
       "N", "O", "P", "Q", "R", "S", "T", "U", "V", "W", "X", "Y", "Z" >>

IsLowerLetter(c) == \E i \in 1..Len(LowerLetters) : LowerLetters[i] = c

IsUpperLetter(c) == \E i \in 1..Len(UpperLetters) : UpperLetters[i] = c

\* String.prototype.toUpperCase on one character
charToUpperCase(c) ==
    IF IsLowerLetter(c)
    THEN UpperLetters[CHOOSE i \in 1..Len(LowerLetters) : LowerLetters[i] = c]
    ELSE c

\* String.prototype.toLowerCase on one character
charToLowerCase(c) ==
    IF IsUpperLetter(c)
    THEN LowerLetters[CHOOSE i \in 1..Len(UpperLetters) : UpperLetters[i] = c]
    ELSE c

toLowerCase(str) == [i \in 1..Len(str) |-> charToLowerCase(str[i])]

\* /^[a-z]+(-[a-z]+)*$/.test(str)
isKebabCase(str) ==
    /\ Len(str) > 0
    /\ \A i \in 1..Len(str) : IsLowerLetter(str[i]) \/ str[i] = "-"
    /\ str[1] # "-"
    /\ str[Len(str)] # "-"
    /\ \A i \in 1..(Len(str) - 1) : ~(str[i] = "-" /\ str[i + 1] = "-")

RECURSIVE stripLeadingHyphens(_)
\* .replace(/^-+/, '')
stripLeadingHyphens(str) ==
    IF Len(str) > 0 /\ str[1] = "-" THEN stripLeadingHyphens(Tail(str)) ELSE str

RECURSIVE stripTrailingHyphens(_)
\* .replace(/-+$/, '')
stripTrailingHyphens(str) ==
    IF Len(str) > 0 /\ str[Len(str)] = "-"
    THEN stripTrailingHyphens(SubSeq(str, 1, Len(str) - 1))
    ELSE str

RECURSIVE replaceHyphenLetter(_)
\* .replace(/-([a-z])/g, g => g[1].toUpperCase()): a left-to-right scan
replaceHyphenLetter(str) ==
    IF Len(str) = 0 THEN << >>
    ELSE IF Len(str) >= 2 /\ str[1] = "-" /\ IsLowerLetter(str[2])
    THEN << charToUpperCase(str[2]) >> \o replaceHyphenLetter(SubSeq(str, 3, Len(str)))
    ELSE << str[1] >> \o replaceHyphenLetter(Tail(str))

kebabToCamelCase(str) ==
    replaceHyphenLetter(stripTrailingHyphens(stripLeadingHyphens(toLowerCase(str))))

camelIfKebab_dropUpperCaseFirst(str, upperCaseFirst) ==
    IF isKebabCase(str) THEN kebabToCamelCase(str) ELSE str

camelIfKebab(str, upperCaseFirst) ==
    LET string == IF isKebabCase(str) THEN kebabToCamelCase(str) ELSE str
    IN  IF upperCaseFirst /\ Len(string) > 0
        THEN << charToUpperCase(string[1]) >> \o Tail(string)
        ELSE string

\* `on${camelIfKebab(property, true)}Changed`, property being
\* String(name).toLowerCase()
localNameOf(name) ==
    << "o", "n" >> \o camelIfKebab(toLowerCase(name), TRUE)
        \o << "C", "h", "a", "n", "g", "e", "d" >>


(***************************************************************************)
(* The attribute names and state keys of the model, and their characters.  *)
(***************************************************************************)
AttrSize == "size"
AttrFontSize == "font-size"
AttrColor == "color"
AttrDisabled == "disabled"
AttrHandler == "handler"
\* a state key that no class observes
KeyCount == "count"

\* the characters of a name
Chars(name) ==
    CASE name = AttrSize -> << "s", "i", "z", "e" >>
      [] name = AttrFontSize -> << "f", "o", "n", "t", "-", "s", "i", "z", "e" >>
      [] name = AttrColor -> << "c", "o", "l", "o", "r" >>
      [] name = AttrDisabled -> << "d", "i", "s", "a", "b", "l", "e", "d" >>
      [] name = AttrHandler -> << "h", "a", "n", "d", "l", "e", "r" >>
      [] name = KeyCount -> << "c", "o", "u", "n", "t" >>

OnSizeChanged ==
    << "o", "n", "S", "i", "z", "e", "C", "h", "a", "n", "g", "e", "d" >>
OnFontSizeChanged ==
    << "o", "n", "F", "o", "n", "t", "S", "i", "z", "e",
       "C", "h", "a", "n", "g", "e", "d" >>
OnDisabledChanged ==
    << "o", "n", "D", "i", "s", "a", "b", "l", "e", "d",
       "C", "h", "a", "n", "g", "e", "d" >>
OnHandlerChanged ==
    << "o", "n", "H", "a", "n", "d", "l", "e", "r",
       "C", "h", "a", "n", "g", "e", "d" >>

\* every attribute name and state key of the model
Keys ==
    { AttrSize, AttrFontSize, AttrColor, AttrDisabled, AttrHandler, KeyCount }

\* the handler name the reaction computes for each name
localNames == [k \in Keys |-> localNameOf(Chars(k))]

(***************************************************************************)
(* The component classes.  "AquaButton" is src/src/aqua-button.js;         *)
(* "Widget" is the subclass of the base's own documentation: observed      *)
(* attributes with on<Name>Changed methods, one of which throws, and      *)
(* handlers registered in attributeHandlers, one of them for an attribute  *)
(* that has a method too.                                                  *)
(***************************************************************************)
Classes == { "Widget", "AquaButton" }

\* the Widget built on the copy of WebComponentBase in src/unnamed/part_000,
\* whose queueCommand and buildDOM differ from those of src/src
Part000Widget == "part_000:Widget"

VARIABLES
    klass,           \* the class of the component instance
    mounted,         \* isConnected
    mountCount,      \* the number of mount reactions so far
    state,           \* #state: key -> value, Undefined when the key is absent
    attrs,           \* the DOM attributes of the host element, Null when absent
    skipKeys,        \* keys whose latest state mutation was flagged skipAttrSet
    queuedCommands,  \* the queue, as the ids of the queued commands
    issued,          \* every command accepted by queueCommand, by id
    executed,        \* the log of command executions
    listeners,       \* #listeners: event name -> registrations
    rootListeners,   \* the event listener list of the host element
    elemListeners,   \* the event listener lists of the shadow tree's elements
    buttonClass,     \* AquaButton: the inner button carries the class 'disabled'
    styleText,       \* stylesheet.textContent: the texts of the rules, in order
    cssRules,        \* stylesheet.sheet.cssRules; there is a sheet iff mounted
    shadowChildren,  \* shadowRoot.childNodes, in order
    lastOp           \* the last call and its trace

vars ==
    << klass, mounted, mountCount, state, attrs, skipKeys, queuedCommands,
       issued, executed, listeners, rootListeners, elemListeners, buttonClass,
       styleText, cssRules, shadowChildren, lastOp >>

\* static get observedAttributes()
observedAttributes ==
    IF klass = "AquaButton"
    THEN { AttrColor, AttrDisabled, AttrHandler, AttrSize }
    ELSE { AttrSize, AttrFontSize, AttrColor }

\* the names of the on<Name>Changed methods an instance exposes (Reflect.has)
instanceMethodNames ==
    IF klass = "AquaButton"
    THEN { OnDisabledChanged, OnHandlerChanged, OnSizeChanged }
    ELSE { OnSizeChanged, OnFontSizeChanged }

\* the body of the method this[localName]
instanceMethod(localName) ==
    CASE klass = "AquaButton" /\ localName = OnDisabledChanged
            -> "AquaButton.onDisabledChanged"
      [] klass = "AquaButton" /\ localName = OnHandlerChanged
            -> "AquaButton.onHandlerChanged"
      [] klass = "AquaButton" /\ localName = OnSizeChanged
            -> "AquaButton.onSizeChanged"
      [] klass = "Widget" /\ localName = OnSizeChanged -> "returns"
      [] klass = "Widget" /\ localName = OnFontSizeChanged -> "throws"

\* the keys of the attributeHandlers map of an instance
attributeHandlerNames ==
    IF klass = "AquaButton" THEN { } ELSE { AttrColor, AttrSize }

\* the body of attributeHandlers.get(property)
attributeHandler(property) == "returns"

(***************************************************************************)
(* Commands.  A command is a closure; the model knows it by the kind of    *)
(* its body.  NotCallable stands for any argument that is not a function.  *)
(***************************************************************************)
NotCallable == "<not callable>"

\* the commands client code queues
ClientCommands == { "returns", "throws", "enqueues" }

\* typeof command === 'function' || command instanceof Function
IsCallable(command) == command # NotCallable


(***************************************************************************)
(* The DOM the component touches: the host element (the component root)    *)
(* and the elements of its shadow tree that selectors can match.           *)
(***************************************************************************)
\* the elements of the shadow tree, in document order: two elements of the
\* template, and one that client code appends to the shadow root later
ShadowElements == << "b1", "b2", "b3" >>

\* the element client code appends, and the node of the shadow root it is
LateElement == "b3"
LateNode == [kind |-> "client", index |-> 1, gen |-> 0]

\* the element is in a shadow tree of these children
InTree(children, element) ==
    element = LateElement =>
        \E i \in 1..Len(children) : children[i] = LateNode

\* the element is in the shadow tree
InShadowTree(element) == InTree(shadowChildren, element)

Selectors == { ".btn" }

\* element.matches(selector)
Matches(element, selector) ==
    selector = ".btn"

\* this.shadowRoot.querySelectorAll(selector)
querySelectorAll(selector) ==
    SelectSeq(ShadowElements,
              LAMBDA e : InShadowTree(e) /\ Matches(e, selector))

EventNames == << "click" >>

Handlers == { "h1", "h2" }

\* the options argument: absent, or { capture: true }
CaptureOptions == "{capture:true}"
OptionValues == { Undefined, CaptureOptions }

\* the entry the DOM keeps for addEventListener(type, callback, options)
domListener(type, callback, options) ==
    [type |-> type, callback |-> callback, capture |-> (options = CaptureOptions)]

\* EventTarget.addEventListener: an entry equal in type, callback and capture
\* is not added twice
domAddEventListener(list, type, callback, options) ==
    IF \E i \in 1..Len(list) : list[i] = domListener(type, callback, options)
    THEN list
    ELSE Append(list, domListener(type, callback, options))

\* EventTarget.removeEventListener
domRemoveEventListener(list, type, callback, options) ==
    SelectSeq(list, LAMBDA l : l # domListener(type, callback, options))

(***************************************************************************)
(* The machine: the fields of the component, the DOM, and the trace of     *)
(* the call being computed.                                                *)
(***************************************************************************)
Machine ==
    [ mounted |-> mounted, mountCount |-> mountCount, state |-> state,
      attrs |-> attrs, skipKeys |-> skipKeys, queue |-> queuedCommands,
      issued |-> issued, executed |-> executed, listeners |-> listeners,
      rootListeners |-> rootListeners, elemListeners |-> elemListeners,
      buttonClass |-> buttonClass, styleText |-> styleText,
      cssRules |-> cssRules, shadowChildren |-> shadowChildren,
      result |-> Undefined, returned |-> << >>,
      names |-> << >>, previous |-> << >>, steps |-> << >>, entered |-> 0,
      renders |-> 0, reactions |-> 0, attrWrites |-> 0, calls |-> << >>,
      setStateKeys |-> { }, escapedReactions |-> 0, thrown |-> FALSE,
      depth |-> 0, maxDepth |-> 0 ]

\* render(): a no-op in the base; the trace counts its invocations
render(m) == [m EXCEPT !.renders = @ + 1]

queueCommand_pushNothing(m, command, by) ==
    IF IsCallable(command)
    THEN [m EXCEPT
            !.issued = Append(@, [kind |-> command, era |-> m.mountCount, by |-> by])]
    ELSE m

\* queueCommand(command) of src/unnamed/part_000: this.queuedCommands.push()
\* has no argument and appends nothing; the model keeps the record of the
\* command handed over
part000_queueCommand(m, command, by) ==
    IF IsCallable(command)
    THEN [m EXCEPT
            !.issued = Append(@, [kind |-> command, era |-> m.mountCount, by |-> by]),
            !.queue = @ \o << >>]
    ELSE m

\* queueCommand(command); `by` tells who called it
queueCommand(m, command, by) ==
    IF IsCallable(command)
    THEN [m EXCEPT
            !.issued = Append(@, [kind |-> command, era |-> m.mountCount, by |-> by]),
            !.queue = Append(@, Len(m.issued) + 1)]
    ELSE m

\* the body of a command
commandBody(m, kind) ==
    CASE kind = "returns" -> m
      [] kind = "throws" -> [m EXCEPT !.thrown = TRUE]
      [] kind = "enqueues" -> queueCommand(m, "returns", "command")
      [] kind = "addDisabledClass" -> [m EXCEPT !.buttonClass = TRUE]
      [] kind = "removeDisabledClass" -> [m EXCEPT !.buttonClass = FALSE]

\* the methods an element has before its constructor patches them
NativeAdd == "EventTarget.addEventListener"
NativeRemove == "EventTarget.removeEventListener"
elementPrototype ==
    [ addEventListener |-> NativeAdd, removeEventListener |-> NativeRemove,
      _addEventListener |-> "", _removeEventListener |-> "" ]

patchElementMethods_aliasesThePatch(methods) ==
    [ addEventListener |-> "on", removeEventListener |-> "off",
      _addEventListener |-> "on", _removeEventListener |-> "off" ]

\* patchElementMethods(): for each pair, this['_' + original] is bound to
\* the method found under the original name, and then the original name is
\* given the remapped method
patchElementMethods(methods) ==
    LET aliasedAdd == [methods EXCEPT !._addEventListener = methods.addEventListener]
        patchedAdd == [aliasedAdd EXCEPT !.addEventListener = "on"]
        aliasedRemove ==
            [patchedAdd EXCEPT !._removeEventListener = patchedAdd.removeEventListener]
    IN  [aliasedRemove EXCEPT !.removeEventListener = "off"]

\* the methods of a component instance after its constructor
elementMethods == patchElementMethods(elementPrototype)

attachRegistration_everyElement(m, eventName, selector, handler, options) ==
    IF selector # Null /\ selector # ""
    THEN [m EXCEPT !.elemListeners =
            [e \in DOMAIN @ |->
                domAddEventListener(@[e], eventName, handler, options)]]
    ELSE [m EXCEPT !.rootListeners =
            domAddEventListener(@, eventName, handler, options)]

\* one registration attached to its targets (the body of the forEach in
\* attachEventListeners, and the isConnected branch of on)
attachRegistration(m, eventName, selector, handler, options) ==
    IF selector # Null /\ selector # ""
    THEN [m EXCEPT !.elemListeners =
            [e \in DOMAIN @ |->
                IF InTree(m.shadowChildren, e) /\ Matches(e, selector)
                THEN domAddEventListener(@[e], eventName, handler, options)
                ELSE @[e]]]
    \* this._addEventListener(eventName, handler, options)
    ELSE IF elementMethods._addEventListener = NativeAdd
    THEN [m EXCEPT !.rootListeners =
            domAddEventListener(@, eventName, handler, options)]
    \* an alias that is on(): on pushes and, being connected, calls the alias
    \* again, until the stack is exhausted and a RangeError is thrown
    ELSE [m EXCEPT !.entered = @ + 1, !.thrown = TRUE]

\* one registration detached from its targets (the body of the forEach in
\* removeEventListeners, and the isConnected branch of off)
detachRegistration(m, eventName, selector, handler, options) ==
    IF selector # Null /\ selector # ""
    THEN [m EXCEPT !.elemListeners =
            [e \in DOMAIN @ |->
                IF InTree(m.shadowChildren, e) /\ Matches(e, selector)
                THEN domRemoveEventListener(@[e], eventName, handler, options)
                ELSE @[e]]]
    \* this._removeEventListener(eventName, handler, options)
    ELSE IF elementMethods._removeEventListener = NativeRemove
    THEN [m EXCEPT !.rootListeners =
            domRemoveEventListener(@, eventName, handler, options)]
    \* an alias that is off(): the registration is spliced already, the
    \* nested off() finds none and returns
    ELSE [m EXCEPT !.entered = @ + 1]

RECURSIVE flatRegistrations(_, _)
\* the registrations in the order #listeners.forEach visits them
flatRegistrations(ls, i) ==
    IF i > Len(EventNames) THEN << >>
    ELSE [j \in 1..Len(ls[EventNames[i]]) |->
            [eventName |-> EventNames[i], reg |-> ls[EventNames[i]][j]]]
         \o flatRegistrations(ls, i + 1)

RECURSIVE attachAll(_, _)
attachAll(m, regs) ==
    IF regs = << >> THEN m
    ELSE attachAll(
            attachRegistration(m, Head(regs).eventName, Head(regs).reg.selector,
                               Head(regs).reg.handler, Head(regs).reg.options),
            Tail(regs))

attachEventListeners_rootOnly(m) ==
    attachAll(m, SelectSeq(flatRegistrations(m.listeners, 1),
                           LAMBDA f : f.reg.selector = Null))

\* attachEventListeners()
attachEventListeners(m) == attachAll(m, flatRegistrations(m.listeners, 1))

RECURSIVE detachAll(_, _)
detachAll(m, regs) ==
    IF regs = << >> THEN m
    ELSE detachAll(
            detachRegistration(m, Head(regs).eventName, Head(regs).reg.selector,
                               Head(regs).reg.handler, Head(regs).reg.options),
            Tail(regs))

removeEventListeners_rootOnly(m) ==
    detachAll(m, SelectSeq(flatRegistrations(m.listeners, 1),
                           LAMBDA f : f.reg.selector = Null))

\* removeEventListeners()
removeEventListeners(m) == detachAll(m, flatRegistrations(m.listeners, 1))

\* the registration has its listener on each of its targets
registrationAttached(m, f) ==
    IF f.reg.selector # Null /\ f.reg.selector # ""
    THEN \A e \in DOMAIN m.elemListeners :
            (InTree(m.shadowChildren, e) /\ Matches(e, f.reg.selector)) =>
               \E l \in 1..Len(m.elemListeners[e]) :
                  m.elemListeners[e][l]
                     = domListener(f.eventName, f.reg.handler, f.reg.options)
    ELSE \E l \in 1..Len(m.rootListeners) :
            m.rootListeners[l]
               = domListener(f.eventName, f.reg.handler, f.reg.options)

\* every registration of #listeners has its listener on each of its targets
listenersAttached(m) ==
    \A k \in 1..Len(flatRegistrations(m.listeners, 1)) :
        registrationAttached(m, flatRegistrations(m.listeners, 1)[k])

\* trace: a step of a reaction or of the constructor begins, and finds the
\* state map, the attached listeners and the renders of the reaction so far
\* as they are
traceStep(m, name) ==
    [m EXCEPT !.steps = Append(@, [step |-> name, state |-> m.state,
                                   attached |-> listenersAttached(m),
                                   renders |-> m.renders])]

\* command(), for the command with this id taken from the queue
runCommand(m, id) ==
    LET kind == m.issued[id].kind
        running == traceStep(m, "command")
        logged == [running EXCEPT !.executed =
                      Append(@, [id |-> id, atMount |-> m.mountCount,
                                 threw |-> (kind = "throws")])]
    IN  commandBody(logged, kind)

RECURSIVE drainQueue_noCatch(_)
drainQueue_noCatch(m) ==
    IF m.queue = << >> \/ m.thrown THEN m
    ELSE drainQueue_noCatch(runCommand([m EXCEPT !.queue = Tail(@)], Head(m.queue)))

RECURSIVE drainFirst(_, _)
drainFirst(m, n) ==
    IF n = 0 \/ m.queue = << >> THEN m
    ELSE LET ran == runCommand([m EXCEPT !.queue = Tail(@)], Head(m.queue))
         IN  drainFirst([ran EXCEPT !.thrown = FALSE], n - 1)

drainQueue_queuedAtStart(m) == drainFirst(m, Len(m.queue))

RECURSIVE drainQueue(_)
\* while ((command = this.queuedCommands.shift()))
\*   try { command() } catch (ignore) { }
drainQueue(m) ==
    IF m.queue = << >> THEN m
    ELSE LET ran == runCommand([m EXCEPT !.queue = Tail(@)], Head(m.queue))
         IN  drainQueue([ran EXCEPT !.thrown = FALSE])

connectedCallback_drainOnFirstMountOnly(m) ==
    LET attached == attachEventListeners(traceStep(m, "attachEventListeners"))
        drained == IF m.mountCount = 1 THEN drainQueue(attached) ELSE attached
    IN  render(traceStep(drained, "render"))

connectedCallback_drainsBeforeAttaching(m) ==
    LET drained == drainQueue(m)
        attached == attachEventListeners(traceStep(drained, "attachEventListeners"))
    IN  render(traceStep(attached, "render"))

\* connectedCallback()
connectedCallback(m) ==
    LET attached == attachEventListeners(traceStep(m, "attachEventListeners"))
        drained == drainQueue(attached)
    IN  IF drained.thrown THEN drained ELSE render(traceStep(drained, "render"))

\* disconnectedCallback()
disconnectedCallback(m) == removeEventListeners(m)


(***************************************************************************)
(* The StyleManager of the component and its style container.  Variable    *)
(* names and values are sequences of characters.  The container's text is  *)
(* the sequence of the texts of its rules; the sheet exists while the      *)
(* container is connected, which is while the component is mounted, and    *)
(* is parsed again from the text whenever the text is assigned.            *)
(***************************************************************************)
\* this.selector = useHost ? ':host' : ':root', with useHost = true
managerSelector == ":host"

RECURSIVE trim(_)
\* String.prototype.trim
trim(v) ==
    IF Len(v) > 0 /\ v[1] = " " THEN trim(Tail(v))
    ELSE IF Len(v) > 0 /\ v[Len(v)] = " " THEN trim(SubSeq(v, 1, Len(v) - 1))
    ELSE v

\* prop.startsWith('--')
startsWithMarker(prop) == Len(prop) >= 2 /\ prop[1] = "-" /\ prop[2] = "-"

RECURSIVE replaceUpperLetters(_)
\* prop.replace(/[A-Z]/g, letter => `-${letter.toLowerCase()}`)
replaceUpperLetters(prop) ==
    IF Len(prop) = 0 THEN << >>
    ELSE (IF IsUpperLetter(prop[1]) THEN << "-", charToLowerCase(prop[1]) >>
          ELSE << prop[1] >>)
         \o replaceUpperLetters(Tail(prop))

normalizeProp_keepsCase(prop) ==
    IF startsWithMarker(prop) THEN SubSeq(prop, 3, Len(prop)) ELSE prop

\* normalizeProp(prop)
normalizeProp(prop) ==
    replaceUpperLetters(IF startsWithMarker(prop)
                        THEN SubSeq(prop, 3, Len(prop)) ELSE prop)

\* denormalizeProp(prop)
denormalizeProp(prop) == replaceHyphenLetter(prop)

\* the null getVariable returns, as a value of the kind style values are
NoValue == << Null >>

\* the value undefined, as a value of the kind style values are
UndefinedValue == << Undefined >>

\* the conversion of setProperty's value argument to a string
cssString(value) ==
    IF value = UndefinedValue
    THEN << "u", "n", "d", "e", "f", "i", "n", "e", "d" >>
    \* [LegacyNullToEmptyString]
    ELSE IF value = NoValue THEN << >>
    ELSE value

\* `--${name}`
customProperty(name) == << "-", "-" >> \o name

\* CSSStyleDeclaration.getPropertyValue: '' when the property is not set
getPropertyValue(style, property) ==
    IF \E i \in 1..Len(style) : style[i].name = property
    THEN style[CHOOSE i \in 1..Len(style) : style[i].name = property].value
    ELSE << >>

\* CSSStyleDeclaration.removeProperty
removeProperty(style, property) ==
    SelectSeq(style, LAMBDA d : d.name # property)

\* CSSStyleDeclaration.setProperty: an empty value removes the property, a
\* property already set keeps its place
setProperty(style, property, value) ==
    IF value = << >> THEN removeProperty(style, property)
    ELSE IF \E i \in 1..Len(style) : style[i].name = property
    THEN [i \in 1..Len(style) |->
            IF style[i].name = property
            THEN [name |-> property, value |-> value] ELSE style[i]]
    ELSE Append(style, [name |-> property, value |-> value])

\* CSSRule.cssText: the text of one rule
cssText(rule) ==
    [ selector |-> rule.selectorText,
      declarations |-> [i \in 1..Len(rule.style) |->
          [property |-> rule.style[i].name, value |-> rule.style[i].value]] ]

\* the sheet a style element builds from its text: a declaration value
\* loses the white space around it
parseStyleText(text) ==
    [r \in 1..Len(text) |->
        [ selectorText |-> text[r].selector,
          style |-> [i \in 1..Len(text[r].declarations) |->
              [name |-> text[r].declarations[i].property,
               value |-> trim(text[r].declarations[i].value)]] ]]

\* toString(): the cssText of every rule of the sheet
toString(m) == [r \in 1..Len(m.cssRules) |-> cssText(m.cssRules[r])]

\* updateStyleElement(): assigning textContent makes the style element
\* build its sheet again
updateStyleElement(m) ==
    [m EXCEPT !.styleText = toString(m),
              !.cssRules = parseStyleText(toString(m))]

\* getRuleSet(selector): the index of the rule in cssRules, 0 for null
getRuleSet(m, sel) ==
    IF ~m.mounted THEN 0
    ELSE IF \E r \in 1..Len(m.cssRules) : m.cssRules[r].selectorText = sel
    THEN CHOOSE r \in 1..Len(m.cssRules) :
            /\ m.cssRules[r].selectorText = sel
            /\ \A q \in 1..(r - 1) : m.cssRules[q].selectorText # sel
    ELSE 0

createRuleSet_insertsFirst(m, sel) ==
    IF ~m.mounted THEN [m EXCEPT !.thrown = TRUE]
    ELSE [m EXCEPT !.cssRules = << [selectorText |-> sel, style |-> << >>] >> \o @]

\* createRuleSet(selector): sheet is null while the style element is not
\* connected, and reading cssRules of null throws a TypeError
createRuleSet(m, sel) ==
    IF ~m.mounted THEN [m EXCEPT !.thrown = TRUE]
    ELSE [m EXCEPT !.cssRules = Append(@, [selectorText |-> sel, style |-> << >>])]

setVariable_alwaysCreates(m, name, value) ==
    LET created == createRuleSet(m, managerSelector)
        index == Len(created.cssRules)
    IN  IF created.thrown THEN created
        ELSE updateStyleElement(
                [created EXCEPT !.cssRules[index].style =
                    setProperty(@, customProperty(name), cssString(value))])

\* setVariable(name, value)
setVariable(m, name, value) ==
    LET found == getRuleSet(m, managerSelector)
        created == IF found # 0 THEN m ELSE createRuleSet(m, managerSelector)
        index == IF found # 0 THEN found ELSE Len(created.cssRules)
    IN  IF created.thrown THEN created
        ELSE updateStyleElement(
                [created EXCEPT !.cssRules[index].style =
                    setProperty(@, customProperty(name), cssString(value))])

getVariable_emptyWithoutRule(m, name) ==
    LET ruleSet == getRuleSet(m, managerSelector)
    IN  [m EXCEPT !.returned =
            IF ruleSet # 0
            THEN trim(getPropertyValue(m.cssRules[ruleSet].style, customProperty(name)))
            ELSE << >>]

\* getVariable(name)
getVariable(m, name) ==
    LET ruleSet == getRuleSet(m, managerSelector)
    IN  [m EXCEPT !.returned =
            IF ruleSet # 0
            THEN trim(getPropertyValue(m.cssRules[ruleSet].style, customProperty(name)))
            ELSE NoValue]

\* hasVariable(name)
hasVariable(m, name) ==
    LET ruleSet == getRuleSet(m, managerSelector)
    IN  [m EXCEPT !.result =
            IF ruleSet # 0
               /\ getPropertyValue(m.cssRules[ruleSet].style, customProperty(name))
                     # << >>
            THEN True ELSE False]

removeVariable_keepsProperty(m, name) ==
    LET ruleSet == getRuleSet(m, managerSelector)
    IN  IF ruleSet # 0
        THEN [updateStyleElement(m) EXCEPT !.result = True,
                !.previous = getPropertyValue(m.cssRules[ruleSet].style,
                                              customProperty(name))]
        ELSE [m EXCEPT !.result = False]

\* removeVariable(name)
removeVariable(m, name) ==
    LET ruleSet == getRuleSet(m, managerSelector)
    IN  IF ruleSet # 0
        THEN [updateStyleElement(
                 [m EXCEPT !.cssRules[ruleSet].style =
                     removeProperty(@, customProperty(name))])
                EXCEPT !.result = True,
                       \* trace: the value the property had
                       !.previous = getPropertyValue(m.cssRules[ruleSet].style,
                                                     customProperty(name))]
        ELSE [m EXCEPT !.result = False]

getVariableNames_keepsHyphens(m) ==
    LET ruleSet == getRuleSet(m, managerSelector)
    IN  [m EXCEPT !.names =
            IF ruleSet = 0 THEN << >>
            ELSE LET custom == SelectSeq(m.cssRules[ruleSet].style,
                                         LAMBDA d : startsWithMarker(d.name))
                 IN  [i \in 1..Len(custom) |->
                        SubSeq(custom[i].name, 3, Len(custom[i].name))]]

\* getVariableNames()
getVariableNames(m) ==
    LET ruleSet == getRuleSet(m, managerSelector)
    IN  [m EXCEPT !.names =
            IF ruleSet = 0 THEN << >>
            ELSE LET custom == SelectSeq(m.cssRules[ruleSet].style,
                                         LAMBDA d : startsWithMarker(d.name))
                 IN  [i \in 1..Len(custom) |->
                        denormalizeProp(SubSeq(custom[i].name, 3, Len(custom[i].name)))]]

\* the traps of the proxy buildVariablesProxy makes: each normalizes the
\* property name
variablesSet(m, prop, value) == setVariable(m, normalizeProp(prop), value)

variablesGet(m, prop) == getVariable(m, normalizeProp(prop))

variablesHas(m, prop) == hasVariable(m, normalizeProp(prop))

variablesDeleteProperty(m, prop) == removeVariable(m, normalizeProp(prop))

variablesOwnKeys(m) == getVariableNames(m)

\* delete variables[prop].  buildVariablesProxy returns
\* Object.setPrototypeOf({}, proxy): variables is an ordinary object with the
\* proxy as its prototype.  Reading, writing and `in` fall through to the
\* prototype and reach the traps; the [[Delete]] of an ordinary object looks
\* at its own properties only, of which variables has none, so that the
\* deleteProperty trap is not invoked: the result is true and nothing changes
variablesDelete(m, prop) == [m EXCEPT !.result = True]

RECURSIVE assignEntries(_, _)
\* for (const [key, val] of Object.entries(value)) in the setter
\* applyVariablesTo installs; an exception ends the loop
assignEntries(m, entries) ==
    IF entries = << >> \/ m.thrown THEN m
    ELSE LET key == Head(entries).key
             val == Head(entries).val
             next == IF variablesHas(m, key).result = True /\ val = UndefinedValue
                     THEN variablesDelete(m, key)
                     ELSE variablesSet(m, key, val)
         IN  assignEntries([next EXCEPT !.result = Undefined], Tail(entries))

\* the values assigned to object.variables: a mapping with its entries, null,
\* a string (Object.entries of which are its characters under their
\* indices) or a number
ObjectValue(entries) == [ kind |-> "object", entries |-> entries ]
NullValue == [ kind |-> "null", entries |-> << >> ]
StringValue(chars) ==
    [ kind |-> "string",
      entries |-> [ i \in 1..Len(chars) |->
                      [ key |-> << chars[i] >>, val |-> << chars[i] >> ] ] ]
NumberValue == [ kind |-> "number", entries |-> << >> ]

\* typeof value: 'object' for null
typeOf(value) == IF value.kind = "null" THEN "object" ELSE value.kind

\* the value is truthy: not null; the strings and numbers assigned are not
\* '' and not 0
truthy(value) == value.kind # "null"

\* object.variables = value: the setter applyVariablesTo installs
applyVariablesTo_set(m, value) ==
    IF truthy(value) /\ typeOf(value) = "object"
    THEN assignEntries(m, value.entries)
    ELSE m

\* the names of the variables AquaButton.setColor reads and writes
ButtonTextColor ==
    << "b", "u", "t", "t", "o", "n", "T", "e", "x", "t", "C", "o", "l", "o", "r" >>
AquaTextColor(color) ==
    << "a", "q", "u", "a" >>
       \o (IF color = "Gray" THEN << "G", "r", "a", "y" >>
                              ELSE << "B", "l", "u", "e" >>)
       \o << "T", "e", "x", "t", "C", "o", "l", "o", "r" >>

\* the state 'color.original' of an AquaButton without a color attribute:
\* normalizedColorAttribute(true) in its constructor sets it to 'Blue'
colorOriginal == "Blue"

\* AquaButton.setColor(color): this.variables = { buttonTextColor:
\* variables[`aqua${color}TextColor`], ... }.  The mapping has eight entries
\* of this form, each read from the variables and assigned by the setter
\* applyVariablesTo installs; the model keeps the first, the one the setter
\* assigns first
setColor(m, color) ==
    IF color \notin { "Blue", "Gray" } THEN m
    ELSE LET read == variablesGet(m, AquaTextColor(color)).returned
         IN  applyVariablesTo_set(m,
                ObjectValue(<< [key |-> ButtonTextColor, val |-> read] >>))

\* the variables AquaButton.connectedCallback and setSize write, and the
\* values they give them
ButtonHeight ==
    << "b", "u", "t", "t", "o", "n", "H", "e", "i", "g", "h", "t" >>
ButtonHoverTransition ==
    << "b", "u", "t", "t", "o", "n", "H", "o", "v", "e", "r", "T", "r", "a",
       "n", "s", "i", "t", "i", "o", "n" >>
ButtonTextHeight ==
    << "b", "u", "t", "t", "o", "n", "T", "e", "x", "t", "H", "e", "i", "g",
       "h", "t" >>
TextHeightVar ==
    << "v", "a", "r", "(", "-", "-", "b", "u", "t", "t", "o", "n", "-", "t",
       "e", "x", "t", "-", "h", "e", "i", "g", "h", "t", ")" >>
EaseInOut ==
    << "a", "l", "l", " ", "0", ".", "1", "s", " ", "e", "a", "s", "e", "-",
       "i", "n", "-", "o", "u", "t" >>
OrigHeightVar ==
    << "v", "a", "r", "(", "-", "-", "b", "u", "t", "t", "o", "n", "-", "t",
       "e", "x", "t", "-", "o", "r", "i", "g", "-", "h", "e", "i", "g", "h",
       "t", ")" >>
LargeHeightCalc ==
    << "c", "a", "l", "c", "(", "v", "a", "r", "(", "-", "-", "b", "u", "t",
       "t", "o", "n", "-", "t", "e", "x", "t", "-", "o", "r", "i", "g", "-",
       "h", "e", "i", "g", "h", "t", ")", " ", "*", " ", "1", ".", "5", ")" >>

\* AquaButton.setSize(newValue): newValue.toLowerCase() of a value that is
\* no string throws a TypeError; of the sizes the switch knows, the model's
\* attribute values hold 'large', and every other string takes the default
setSize(m, newValue) ==
    IF newValue \in { True, False } THEN [m EXCEPT !.thrown = TRUE]
    ELSE variablesSet(m, ButtonTextHeight,
                      IF newValue = "large" THEN LargeHeightCalc
                      ELSE OrigHeightVar)

\* the text of one declaration-free or one-declaration rule of a template
templateRule(sel, property, value) ==
    [ selector |-> sel,
      declarations |-> << [property |-> property, value |-> value] >> ]

\* `* { box-sizing: border-box }`, the first rule of AquaButton.styles()
BoxSizingRule ==
    templateRule("*", << "b", "o", "x", "-", "s", "i", "z", "i", "n", "g" >>,
                 << "b", "o", "r", "d", "e", "r", "-", "b", "o", "x" >>)

\* `:host { --hr-height: 6px }`, of the rule AquaHorizontalRule.styles()
\* gives the host
HostVariablesRule ==
    templateRule(":host",
                 << "-", "-", "h", "r", "-", "h", "e", "i", "g", "h", "t" >>,
                 << "6", "p", "x" >>)

\* styles(): '' in the base class
styles == IF klass = "AquaButton" THEN << BoxSizingRule >> ELSE << >>

\* the statements of AquaButton.connectedCallback after the call of super;
\* an exception ends the method
measuredVariables(m) ==
    IF m.thrown THEN m
    ELSE variablesSet(variablesSet(m, ButtonHeight, TextHeightVar),
                      ButtonHoverTransition, EaseInOut)

\* this.setSize(this.state.size)
sizeOfState(m) == IF m.thrown THEN m ELSE setSize(m, m.state[AttrSize])

\* this.setColor(this.state.color)
colorOfState(m) == IF m.thrown THEN m ELSE setColor(m, m.state[AttrColor])

\* AquaButton.connectedCallback(): super.connectedCallback(), then the
\* variables of the measured text, setSize and setColor.  Of the six
\* variables the model writes the two whose values do not depend on the
\* measurement; the child nodes it moves are not part of the model
AquaButton_connectedCallback(m) ==
    colorOfState(sizeOfState(measuredVariables(connectedCallback(m))))

\* the connectedCallback of the class of the instance
mountReaction(m) ==
    IF klass = "AquaButton" THEN AquaButton_connectedCallback(m)
    ELSE connectedCallback(m)

(***************************************************************************)
(* State, attributes and the attribute-change reaction.  setState writes   *)
(* the DOM attribute, the host renderer answers with the reaction, and a   *)
(* change handler may call setState again: the operators are mutually      *)
(* recursive, as the calls are.                                            *)
(***************************************************************************)
RECURSIVE setState(_, _, _, _)
RECURSIVE hostSetAttribute(_, _, _)
RECURSIVE attributeChangedCallback(_, _, _, _)
RECURSIVE changeHandler(_, _, _, _)

\* if (this.isConnected) command() else this.queueCommand(command), which an
\* exception of the statements before it does not reach
runOrQueue(m, command) ==
    IF m.thrown THEN m
    ELSE IF m.mounted THEN commandBody(m, command)
    ELSE queueCommand(m, command, "handler")

changeHandler_sizePropagatesDisabled(m, body, oldValue, newValue) ==
    CASE body = "returns" -> m
      [] body = "throws" -> [m EXCEPT !.thrown = TRUE]
      [] body = "AquaButton.onDisabledChanged" ->
            setState(m, AttrDisabled, IF newValue # Null THEN True ELSE False, TRUE)
      [] body = "AquaButton.onHandlerChanged" -> m
      [] body = "AquaButton.onSizeChanged" ->
            setState(m, AttrDisabled, True, FALSE)

\* the bodies of the change handlers, called as handler(oldValue, newValue)
changeHandler(m, body, oldValue, newValue) ==
    CASE body = "returns" -> m
      [] body = "throws" -> [m EXCEPT !.thrown = TRUE]
      [] body = "AquaButton.onDisabledChanged" ->
            LET flag == IF newValue # Null THEN True ELSE False
                command == IF newValue # Null THEN "addDisabledClass"
                           ELSE "removeDisabledClass"
                color == IF newValue # Null THEN "Gray" ELSE colorOriginal
            IN  runOrQueue(setColor(setState(m, AttrDisabled, flag, TRUE), color),
                           command)
      \* onHandlerChanged keeps a private function
      [] body = "AquaButton.onHandlerChanged" -> m
      [] body = "AquaButton.onSizeChanged" -> setSize(m, newValue)

attributeChangedCallback_noCatch(m, name, oldValue, newValue) ==
    LET stored == [m EXCEPT !.state[name] = newValue, !.reactions = @ + 1]
        localName == localNames[name]
        called == [stored EXCEPT !.calls =
                      Append(@, [name |-> localName, via |-> "method",
                                 oldValue |-> oldValue, newValue |-> newValue])]
        ran == IF localName \in instanceMethodNames
               THEN changeHandler(called, instanceMethod(localName), oldValue, newValue)
               ELSE stored
    IN  IF ran.thrown THEN ran ELSE render(ran)

attributeChangedCallback_noStore(m, name, oldValue, newValue) ==
    LET localName == localNames[name]
        called == [m EXCEPT !.reactions = @ + 1, !.calls =
                      Append(@, [name |-> localName, via |-> "method",
                                 oldValue |-> oldValue, newValue |-> newValue])]
        ran == IF localName \in instanceMethodNames
               THEN changeHandler(called, instanceMethod(localName), oldValue, newValue)
               ELSE [m EXCEPT !.reactions = @ + 1]
    IN  render([ran EXCEPT !.thrown = FALSE])

attributeChangedCallback_storesAfterHandler(m, name, oldValue, newValue) ==
    LET localName == localNames[name]
        counted == [m EXCEPT !.reactions = @ + 1, !.skipKeys = @ \ {name}]
        called == [traceStep(counted, "changeHandler") EXCEPT !.calls =
                      Append(@, [name |-> localName, via |-> "method",
                                 oldValue |-> oldValue, newValue |-> newValue])]
        ran == IF localName \in instanceMethodNames
               THEN [changeHandler(called, instanceMethod(localName), oldValue, newValue)
                        EXCEPT !.thrown = FALSE]
               ELSE counted
        stored == [ran EXCEPT !.state[name] = newValue]
    IN  render(traceStep(stored, "reactionRender"))

attributeChangedCallback_rendersBeforeHandler(m, name, oldValue, newValue) ==
    LET localName == localNames[name]
        stored == [m EXCEPT !.state[name] = newValue, !.reactions = @ + 1,
                            !.skipKeys = @ \ {name}]
        rendered == render(traceStep(stored, "reactionRender"))
        called == [traceStep(rendered, "changeHandler") EXCEPT !.calls =
                      Append(@, [name |-> localName, via |-> "method",
                                 oldValue |-> oldValue, newValue |-> newValue])]
    IN  IF localName \in instanceMethodNames
        THEN [changeHandler(called, instanceMethod(localName), oldValue, newValue)
                 EXCEPT !.thrown = FALSE]
        ELSE rendered

attributeChangedCallback_prefersAttributeHandlers(m, name, oldValue, newValue) ==
    LET stored == [m EXCEPT !.state[name] = newValue, !.reactions = @ + 1,
                            !.skipKeys = @ \ {name}]
        localName == localNames[name]
        handler ==
            IF name \in attributeHandlerNames
            THEN [name |-> Chars(name), via |-> "attributeHandlers",
                  body |-> attributeHandler(name)]
            ELSE IF localName \in instanceMethodNames
            THEN [name |-> localName, via |-> "method",
                  body |-> instanceMethod(localName)]
            ELSE [name |-> << >>, via |-> "", body |-> Null]
        called == [traceStep(stored, "changeHandler") EXCEPT !.calls =
                      Append(@, [name |-> handler.name, via |-> handler.via,
                                 oldValue |-> oldValue, newValue |-> newValue])]
        ran == IF handler.body # Null
               THEN [changeHandler(called, handler.body, oldValue, newValue)
                        EXCEPT !.thrown = FALSE]
               ELSE stored
    IN  render(traceStep(ran, "reactionRender"))

\* attributeChangedCallback(name, oldValue, newValue)
attributeChangedCallback(m, name, oldValue, newValue) ==
    LET stored == [m EXCEPT !.state[name] = newValue, !.reactions = @ + 1,
                            !.skipKeys = @ \ {name},
                            \* trace: the reactions running at this moment
                            !.depth = @ + 1,
                            !.maxDepth = IF m.depth + 1 > @ THEN m.depth + 1 ELSE @]
        \* String(name).toLowerCase(): the host renderer delivers the names
        \* of the model, which are in lower case, unchanged
        property == name
        localName == localNames[name]
        handler ==
            IF localName \in instanceMethodNames
            THEN [name |-> localName, via |-> "method",
                  body |-> instanceMethod(localName)]
            ELSE IF property \in attributeHandlerNames
            THEN [name |-> Chars(property), via |-> "attributeHandlers",
                  body |-> attributeHandler(property)]
            ELSE [name |-> << >>, via |-> "", body |-> Null]
        called == [traceStep(stored, "changeHandler") EXCEPT !.calls =
                      Append(@, [name |-> handler.name, via |-> handler.via,
                                 oldValue |-> oldValue, newValue |-> newValue])]
        \* try { handler(oldValue, newValue) } catch (ignore) { console.error }
        ran == IF handler.body # Null
               THEN [changeHandler(called, handler.body, oldValue, newValue)
                        EXCEPT !.thrown = FALSE]
               ELSE stored
    IN  render(traceStep([ran EXCEPT !.depth = @ - 1], "reactionRender"))

\* the host renderer runs the reaction of an observed attribute before the
\* attribute write returns; an exception leaving a reaction is reported by
\* the host renderer, not thrown to the writer
hostReaction(m, name, oldValue, newValue) ==
    IF name \in observedAttributes
    THEN LET reacted == attributeChangedCallback(m, name, oldValue, newValue)
         IN  IF reacted.thrown
             THEN [reacted EXCEPT !.thrown = FALSE, !.escapedReactions = @ + 1]
             ELSE reacted
    ELSE m

\* Element.setAttribute(name, value): the value is converted to a string
hostSetAttribute(m, name, value) ==
    hostReaction([m EXCEPT !.attrs[name] = JsString(value), !.attrWrites = @ + 1],
                 name, m.attrs[name], JsString(value))

\* Element.removeAttribute(name): nothing happens when the attribute is absent
hostRemoveAttribute(m, name) ==
    IF m.attrs[name] = Null THEN m
    ELSE hostReaction([m EXCEPT !.attrs[name] = Null, !.attrWrites = @ + 1],
                      name, m.attrs[name], Null)

setState_propagateAnyKey(m, key, value, skipAttrSet) ==
    LET stored == [m EXCEPT !.state[key] = value,
                            !.setStateKeys = @ \cup {key},
                            !.skipKeys = IF skipAttrSet THEN @ \cup {key}
                                        ELSE @ \ {key}]
        written == IF ~skipAttrSet THEN hostSetAttribute(stored, key, value)
                   ELSE stored
    IN  IF written.thrown THEN written ELSE render(written)

setState_neverPropagate(m, key, value, skipAttrSet) ==
    render([m EXCEPT !.state[key] = value, !.setStateKeys = @ \cup {key}])

setState_rendersBeforeWrite(m, key, value, skipAttrSet) ==
    LET stored == [m EXCEPT !.state[key] = value,
                            !.setStateKeys = @ \cup {key},
                            !.skipKeys = IF skipAttrSet THEN @ \cup {key}
                                        ELSE @ \ {key}]
        rendered == render(traceStep(stored, "setStateRender"))
    IN  IF key \in observedAttributes /\ ~skipAttrSet
        THEN hostSetAttribute(rendered, key, value)
        ELSE rendered

\* setState(key, value, skipAttrSet = false)
setState(m, key, value, skipAttrSet) ==
    LET stored == [m EXCEPT !.state[key] = value,
                            !.setStateKeys = @ \cup {key},
                            !.skipKeys = IF skipAttrSet THEN @ \cup {key}
                                        ELSE @ \ {key}]
        written == IF key \in observedAttributes /\ ~skipAttrSet
                   THEN hostSetAttribute(stored, key, value)
                   ELSE stored
    IN  IF written.thrown THEN written
        ELSE render(traceStep(written, "setStateRender"))

\* the set trap of the state proxy: self.setState(property, value, true);
\* the trap returns nothing
stateProxySet(m, property, value) ==
    [setState(m, property, value, TRUE) EXCEPT !.result = Undefined]

RECURSIVE applyEntries(_, _, _)
\* the for loop of setMultipleState over Object.entries(stateUpdates)
applyEntries(m, entries, skipAttrSet) ==
    IF entries = << >> \/ m.thrown THEN m
    ELSE LET key == Head(entries)[1]
             value == Head(entries)[2]
             stored == [m EXCEPT !.state[key] = value,
                                 !.setStateKeys = @ \cup {key},
                                 !.skipKeys = IF skipAttrSet THEN @ \cup {key}
                                        ELSE @ \ {key}]
             written == IF key \in observedAttributes /\ ~skipAttrSet
                        THEN hostSetAttribute(stored, key, value)
                        ELSE stored
         IN  applyEntries(written, Tail(entries), skipAttrSet)

\* setMultipleState(stateUpdates, skipAttrSet = false)
setMultipleState(m, entries, skipAttrSet) ==
    LET applied == applyEntries(m, entries, skipAttrSet)
    IN  IF applied.thrown THEN applied ELSE render(applied)


(***************************************************************************)
(* The listeners registry.                                                 *)
(***************************************************************************)
\* the number of registrations in the registry
registrationCount(ls) == Len(flatRegistrations(ls, 1))

\* on(eventName, selector, handler, options); a function given as second
\* argument is the handler, and the third argument the options
on(m, eventName, a2, a3, a4) ==
    LET isFunction == a2 \in Handlers
        selector == IF isFunction THEN Null ELSE a2
        handler == IF isFunction THEN a2 ELSE a3
        options == IF isFunction THEN a3 ELSE a4
        pushed == [m EXCEPT !.entered = @ + 1, !.listeners[eventName] =
                      Append(@, [selector |-> selector, handler |-> handler,
                                 options |-> options])]
    IN  IF pushed.mounted
        THEN attachRegistration(pushed, eventName, selector, handler, options)
        ELSE pushed

findIndex_handlerOnly(regs, selector, handler) ==
    IF \E i \in 1..Len(regs) : regs[i].handler = handler
    THEN CHOOSE i \in 1..Len(regs) :
            /\ regs[i].handler = handler
            /\ \A j \in 1..(i - 1) : regs[j].handler # handler
    ELSE 0

findIndex_lastMatch(regs, selector, handler) ==
    IF \E i \in 1..Len(regs) : regs[i].selector = selector /\ regs[i].handler = handler
    THEN CHOOSE i \in 1..Len(regs) :
            /\ regs[i].selector = selector /\ regs[i].handler = handler
            /\ \A j \in (i + 1)..Len(regs) :
                  ~(regs[j].selector = selector /\ regs[j].handler = handler)
    ELSE 0

\* listeners.findIndex(l => l.selector === selector && l.handler === handler),
\* 0 for -1
findIndex(regs, selector, handler) ==
    IF \E i \in 1..Len(regs) : regs[i].selector = selector /\ regs[i].handler = handler
    THEN CHOOSE i \in 1..Len(regs) :
            /\ regs[i].selector = selector /\ regs[i].handler = handler
            /\ \A j \in 1..(i - 1) :
                  ~(regs[j].selector = selector /\ regs[j].handler = handler)
    ELSE 0

\* listeners.splice(index, 1)
splice(regs, index) ==
    SubSeq(regs, 1, index - 1) \o SubSeq(regs, index + 1, Len(regs))

\* off(eventName, selector, handler, options)
off(m, eventName, a2, a3, a4) ==
    LET isFunction == a2 \in Handlers
        selector == IF isFunction THEN Null ELSE a2
        handler == IF isFunction THEN a2 ELSE a3
        options == IF isFunction THEN a3 ELSE a4
        index == findIndex(m.listeners[eventName], selector, handler)
        entered == [m EXCEPT !.entered = @ + 1]
        spliced == [entered EXCEPT !.listeners[eventName] = splice(@, index)]
    IN  IF index = 0 THEN entered
        ELSE IF spliced.mounted
        THEN detachRegistration(spliced, eventName, selector, handler, options)
        ELSE spliced

(***************************************************************************)
(* The state after construction.                                           *)
(***************************************************************************)
\* the attribute values client code and markup write
AttributeValues == { "large" }

\* the values client code passes to setState and setMultipleState
StateValues == { "large", True }

\* the keys client code reads and writes
ClientKeys ==
    IF klass = "AquaButton"
    THEN { AttrDisabled, AttrSize, KeyCount }
    ELSE { AttrSize, AttrFontSize, AttrColor }

\* initializeAttributes(): state seeded from the attributes of the element
initializeAttributes(a) ==
    [k \in Keys |-> IF k \in observedAttributes THEN a[k] ELSE Undefined]

\* the style container, a child of the shadow root
StyleNode == [kind |-> "style", index |-> 0, gen |-> 0]

\* ParentNode.append(node): a node that is a child already moves to the end
append(children, node) ==
    Append(SelectSeq(children, LAMBDA c : c # node), node)

RECURSIVE removeEachChild(_, _)
\* for (let child of this.shadowRoot.childNodes)
\*   this.shadowRoot.removeChild(child)
\* childNodes is a live list and its iterator goes by index: after the
\* removal of the child at an index the next child has taken that index,
\* and the iterator moves on to the index after it
removeEachChild(children, index) ==
    IF index > Len(children) THEN children
    ELSE removeEachChild(SubSeq(children, 1, index - 1)
                           \o SubSeq(children, index + 1, Len(children)),
                         index + 1)

\* the number of top-level elements of template(): one in AquaButton
templateCount == 1

\* storage.innerHTML = this.template(): the top-level elements the markup
\* makes, new ones at each call
templateElements(count, gen) ==
    [i \in 1..count |-> [kind |-> "template", index |-> i, gen |-> gen]]

RECURSIVE appendEachChild(_, _, _)
\* for (const child of storage.children) this.shadowRoot.append(child)
\* storage.children is a live collection and append moves the child out of
\* storage, so that the child after it takes its index
appendEachChild(children, storage, index) ==
    IF index > Len(storage) THEN children
    ELSE appendEachChild(append(children, storage[index]),
                         SubSeq(storage, 1, index - 1)
                            \o SubSeq(storage, index + 1, Len(storage)),
                         index + 1)

RECURSIVE appendAll(_, _)
\* [...storage.children].forEach(child => this.shadowRoot.append(child)),
\* over a copy of the collection
appendAll(children, storage) ==
    IF storage = << >> THEN children
    ELSE appendAll(append(children, Head(storage)), Tail(storage))

\* the generation of the elements a call of buildDOM makes
nextGen(children) ==
    1 + (IF children = << >> THEN 0
         ELSE CHOOSE g \in { children[i].gen : i \in 1..Len(children) } :
                 \A i \in 1..Len(children) : children[i].gen <= g)

\* buildDOM() of src/src/webcomponentbase.js, for a template() of count
\* top-level elements
buildDOM(m, count) ==
    LET cleared == removeEachChild(m.shadowChildren, 1)
        styled == append(cleared, StyleNode)
    IN  [m EXCEPT !.shadowChildren =
            appendEachChild(styled,
                            templateElements(count, nextGen(m.shadowChildren)), 1)]

\* buildDOM() of src/unnamed/part_000
part000_buildDOM(m, count) ==
    LET cleared == removeEachChild(m.shadowChildren, 1)
        styled == append(cleared, StyleNode)
    IN  [m EXCEPT !.shadowChildren =
            appendAll(styled, templateElements(count, nextGen(m.shadowChildren)))]

\* buildStyles(): the style container gets the text of styles() and becomes
\* a child of the shadow root
buildStyles(m) ==
    [m EXCEPT !.styleText = styles,
              !.shadowChildren = append(@, StyleNode)]

\* the element before its constructor runs: it has the attributes the
\* markup or client code gave it
NewElement(a) ==
    [ mounted |-> FALSE, mountCount |-> 0,
      state |-> [k \in Keys |-> Undefined], attrs |-> a, skipKeys |-> { },
      queue |-> << >>, issued |-> << >>, executed |-> << >>,
      listeners |-> [e \in {EventNames[i] : i \in 1..Len(EventNames)} |-> << >>],
      rootListeners |-> << >>,
      elemListeners |->
          [e \in {ShadowElements[i] : i \in 1..Len(ShadowElements)} |-> << >>],
      buttonClass |-> FALSE, styleText |-> << >>, cssRules |-> << >>,
      shadowChildren |-> << >>,
      result |-> Undefined, returned |-> << >>, names |-> << >>,
      previous |-> << >>, steps |-> << >>, entered |-> 0,
      renders |-> 0, reactions |-> 0, attrWrites |-> 0, calls |-> << >>,
      setStateKeys |-> { }, escapedReactions |-> 0, thrown |-> FALSE,
      depth |-> 0, maxDepth |-> 0 ]

\* trace: a step of the constructor begins
constructorStep(m, name) == traceStep(m, name)

constructor_seedsLast(m) ==
    LET attached == constructorStep(m, "attachShadow")
        patched == constructorStep(attached, "patchElementMethods")
        proxied == constructorStep(patched, "buildProxies")
        styled == buildStyles(constructorStep(proxied, "buildStyles"))
        built == buildDOM(constructorStep(styled, "buildDOM"), templateCount)
        seeding == constructorStep(built, "initializeAttributes")
    IN  [seeding EXCEPT !.state = initializeAttributes(seeding.attrs)]

\* constructor() of WebComponentBase
constructor(m) ==
    LET attached == constructorStep(m, "attachShadow")
        seeding == constructorStep(attached, "initializeAttributes")
        seeded == [seeding EXCEPT !.state = initializeAttributes(seeding.attrs)]
        patched == constructorStep(seeded, "patchElementMethods")
        proxied == constructorStep(patched, "buildProxies")
        styled == buildStyles(constructorStep(proxied, "buildStyles"))
        building == constructorStep(styled, "buildDOM")
    IN  IF klass = Part000Widget
        THEN part000_buildDOM(building, templateCount)
        ELSE buildDOM(building, templateCount)

\* the registrations the constructor of the class makes:
\* AquaButton calls this.on('click', this.defaultHandler)
constructorListeners ==
    [e \in {EventNames[i] : i \in 1..Len(EventNames)} |->
        IF klass = "AquaButton" /\ e = "click"
        THEN << [selector |-> Null, handler |-> "defaultHandler",
                 options |-> Undefined] >>
        ELSE << >>]

NoArguments ==
    [ key |-> "", value |-> Null, skip |-> FALSE, entries |-> << >>,
      command |-> Null, eventName |-> "", selector |-> Null, handler |-> "",
      options |-> Undefined, name |-> << >>, cssValue |-> << >>,
      assigned |-> << >>, kind |-> "", count |-> 0 ]

\* the trace of a call in which nothing has happened
NoTrace ==
    [ renders |-> 0, reactions |-> 0, attrWrites |-> 0, calls |-> << >>,
      setStateKeys |-> { }, escapedReactions |-> 0, thrown |-> FALSE,
      result |-> Undefined, returned |-> << >>, names |-> << >>,
      previous |-> << >>, steps |-> << >>, entered |-> 0,
      depth |-> 0, maxDepth |-> 0 ]

\* the record of a call: its name, its arguments and the trace of the machine
Call(op, arguments, m) ==
    [ op |-> op, arguments |-> arguments, renders |-> m.renders,
      reactions |-> m.reactions, attrWrites |-> m.attrWrites, calls |-> m.calls,
      setStateKeys |-> m.setStateKeys, escapedReactions |-> m.escapedReactions,
      escaped |-> m.thrown, result |-> m.result, returned |-> m.returned,
      names |-> m.names, previous |-> m.previous, steps |-> m.steps,
      entered |-> m.entered, maxDepth |-> m.maxDepth ]

\* the fields of the component after its constructor, but for the style
\* container
InitFields ==
    /\ mounted = FALSE
    /\ mountCount = 0
    /\ attrs \in [Keys -> {Null, "large"}]
    /\ \A k \in Keys : attrs[k] # Null => klass = "Widget" /\ k \in ClientKeys \cap observedAttributes
    /\ state = constructor(NewElement(attrs)).state
    /\ skipKeys = { }
    /\ queuedCommands = << >>
    /\ issued = << >>
    /\ executed = << >>
    /\ listeners = constructorListeners
    /\ rootListeners = << >>
    /\ elemListeners = [e \in {ShadowElements[i] : i \in 1..Len(ShadowElements)} |-> << >>]
    /\ buttonClass = FALSE
    /\ cssRules = << >>
    /\ shadowChildren = constructor(NewElement(attrs)).shadowChildren
    /\ lastOp = Call("constructor", NoArguments, constructor(NewElement(attrs)))

\* the component after its constructor, but for the style container
InitComponent ==
    /\ klass \in Classes
    /\ InitFields

\* buildStyles(): this.stylesheet.textContent = this.styles()
Init ==
    /\ InitComponent
    /\ styleText = styles

\* the machine of a finished call becomes the state
Commit(m, op, arguments) ==
    /\ Len(m.issued) <= MaxCommands
    /\ mounted' = m.mounted
    /\ mountCount' = m.mountCount
    /\ state' = m.state
    /\ attrs' = m.attrs
    /\ skipKeys' = m.skipKeys
    /\ queuedCommands' = m.queue
    /\ issued' = m.issued
    /\ executed' = m.executed
    /\ listeners' = m.listeners
    /\ rootListeners' = m.rootListeners
    /\ elemListeners' = m.elemListeners
    /\ buttonClass' = m.buttonClass
    /\ styleText' = m.styleText
    /\ cssRules' = m.cssRules
    /\ shadowChildren' = m.shadowChildren
    /\ lastOp' = Call(op, arguments, m)
    /\ UNCHANGED klass

(***************************************************************************)
(* The actions: the calls of client code and of the host renderer.         *)
(***************************************************************************)
\* client code calls queueCommand(command)
QueueCommand ==
    \E command \in ClientCommands \cup {NotCallable} :
        /\ klass # Part000Widget
        \* a command that enqueues needs room for the command it enqueues
        /\ Len(issued) + (IF command = "enqueues" THEN 2 ELSE 1) <= MaxCommands
        /\ Commit(queueCommand(Machine, command, "client"), "queueCommand",
                  [NoArguments EXCEPT !.command = command])

\* client code calls queueCommand(command) of the copy in part_000
Part000QueueCommand ==
    \E command \in ClientCommands \cup {NotCallable} :
        /\ klass = Part000Widget
        /\ Len(issued) + 1 <= MaxCommands
        /\ Commit(part000_queueCommand(Machine, command, "client"),
                  "queueCommand", [NoArguments EXCEPT !.command = command])

\* the nodes client code appends to the shadow root
ClientNodes == { [kind |-> "client", index |-> i, gen |-> 0] : i \in 1..MaxChildren }

\* client code calls shadowRoot.append(node) with a node of its own
ShadowAppend ==
    \E node \in ClientNodes :
        /\ \A i \in 1..Len(shadowChildren) : shadowChildren[i] # node
        /\ Commit([Machine EXCEPT !.shadowChildren = append(@, node)],
                  "shadowRoot.append", NoArguments)

\* buildDOM() is called on a component of src/src whose template() returns
\* markup of count top-level elements
BuildDOM ==
    \E count \in 0..MaxTemplate :
        /\ klass # Part000Widget
        /\ nextGen(shadowChildren) <= MaxBuilds
        /\ Commit(buildDOM(Machine, count), "buildDOM",
                  [NoArguments EXCEPT !.count = count])

\* the same on a component of the copy of the base in part_000
Part000BuildDOM ==
    \E count \in 0..MaxTemplate :
        /\ klass = Part000Widget
        /\ nextGen(shadowChildren) <= MaxBuilds
        /\ Commit(part000_buildDOM(Machine, count), "buildDOM",
                  [NoArguments EXCEPT !.count = count])

\* the host renderer inserts the element into a document
Mount ==
    /\ ~mounted
    /\ mountCount < MaxMounts
    /\ Commit(mountReaction([Machine EXCEPT !.mounted = TRUE,
                                            !.mountCount = @ + 1,
                                            !.cssRules = parseStyleText(styleText)]),
              "mount", NoArguments)

\* the host renderer removes the element from its document
Unmount ==
    /\ mounted
    /\ Commit(disconnectedCallback([Machine EXCEPT !.mounted = FALSE,
                                                   !.cssRules = << >>]),
              "unmount", NoArguments)

\* the DOM attribute is set from outside the component
SetAttribute ==
    \E name \in ClientKeys \cap observedAttributes, value \in AttributeValues :
        Commit(hostSetAttribute(Machine, name, value), "setAttribute",
               [NoArguments EXCEPT !.key = name, !.value = value])

\* an observed attribute the class has no client key for is set from
\* outside the component
SetObservedAttribute ==
    \E name \in observedAttributes \ ClientKeys, value \in AttributeValues :
        Commit(hostSetAttribute(Machine, name, value), "setAttribute",
               [NoArguments EXCEPT !.key = name, !.value = value])

\* the DOM attribute is removed from outside the component
RemoveAttribute ==
    \E name \in ClientKeys \cap observedAttributes :
        /\ attrs[name] # Null
        /\ Commit(hostRemoveAttribute(Machine, name), "removeAttribute",
                  [NoArguments EXCEPT !.key = name])

\* client code calls setState(key, value, skipAttrSet)
SetState ==
    \E key \in ClientKeys, value \in StateValues, skip \in BOOLEAN :
        Commit(setState(Machine, key, value, skip), "setState",
               [NoArguments EXCEPT !.key = key, !.value = value, !.skip = skip])

\* client code assigns component.state[key] = value; the trap returns
\* undefined, which is a TypeError to an assignment made in strict code
StateProxySet ==
    \E key \in ClientKeys, value \in StateValues, strict \in BOOLEAN :
        Commit([stateProxySet(Machine, key, value) EXCEPT !.thrown = strict],
               "state.set",
               [NoArguments EXCEPT !.key = key, !.value = value, !.skip = strict])

\* the objects client code passes to setMultipleState: one entry, or two
\* entries (in either order) that carry the same value
StateUpdates ==
    { << <<k, v>> >> : k \in ClientKeys, v \in StateValues }
    \cup { << <<q[1], q[3]>>, <<q[2], q[3]>> >> :
              q \in { p \in ClientKeys \X ClientKeys \X StateValues : p[1] # p[2] } }

\* client code calls setMultipleState(stateUpdates, skipAttrSet)
SetMultipleState ==
    \E entries \in StateUpdates, skip \in BOOLEAN :
        Commit(setMultipleState(Machine, entries, skip), "setMultipleState",
               [NoArguments EXCEPT !.entries = entries, !.skip = skip])

\* the registrations client code makes: either handler on the root or on
\* the elements a selector matches, and h1 also as a capturing root listener
ClientRegistrations ==
    { r \in [selector : Selectors \cup {Null}, handler : Handlers,
             options : OptionValues] :
         r.options = CaptureOptions => r.selector = Null /\ r.handler = "h1" }

\* client code calls on(eventName, handler, options) or
\* on(eventName, selector, handler, options)
On ==
    \E i \in 1..Len(EventNames), selector \in Selectors \cup {Null},
       handler \in Handlers, options \in OptionValues :
        /\ registrationCount(listeners) < MaxListeners
        /\ [selector |-> selector, handler |-> handler, options |-> options]
              \in ClientRegistrations
        /\ Commit(IF selector = Null
                  THEN on(Machine, EventNames[i], handler, options, Undefined)
                  ELSE on(Machine, EventNames[i], selector, handler, options),
                  "on",
                  [NoArguments EXCEPT !.eventName = EventNames[i],
                      !.selector = selector, !.handler = handler,
                      !.options = options])

\* client code calls off(eventName, handler, options) or
\* off(eventName, selector, handler, options)
Off ==
    \E i \in 1..Len(EventNames), selector \in Selectors \cup {Null},
       handler \in Handlers, options \in OptionValues :
        Commit(IF selector = Null
               THEN off(Machine, EventNames[i], handler, options, Undefined)
               ELSE off(Machine, EventNames[i], selector, handler, options),
               "off",
               [NoArguments EXCEPT !.eventName = EventNames[i],
                   !.selector = selector, !.handler = handler,
                   !.options = options])

\* client code calls component.addEventListener(type, listener, options)
AddEventListener ==
    \E i \in 1..Len(EventNames), listener \in Handlers, options \in OptionValues :
        /\ registrationCount(listeners) < MaxListeners
        /\ [selector |-> Null, handler |-> listener, options |-> options]
              \in ClientRegistrations
        /\ Commit(IF elementMethods.addEventListener = "on"
                  THEN on(Machine, EventNames[i], listener, options, Undefined)
                  ELSE [Machine EXCEPT !.rootListeners =
                          domAddEventListener(@, EventNames[i], listener, options)],
                  "addEventListener",
                  [NoArguments EXCEPT !.eventName = EventNames[i],
                      !.handler = listener, !.options = options])

\* client code calls component.removeEventListener(type, listener, options)
RemoveEventListener ==
    \E i \in 1..Len(EventNames), listener \in Handlers, options \in OptionValues :
        Commit(IF elementMethods.removeEventListener = "off"
               THEN off(Machine, EventNames[i], listener, options, Undefined)
               ELSE [Machine EXCEPT !.rootListeners =
                       domRemoveEventListener(@, EventNames[i], listener, options)],
               "removeEventListener",
               [NoArguments EXCEPT !.eventName = EventNames[i],
                   !.handler = listener, !.options = options])

\* the names client code uses for style variables: camel form, hyphen
\* form and with the leading '--' for one variable, and a second variable
RowGapCamel == << "r", "o", "w", "G", "a", "p" >>
RowGapHyphen == << "r", "o", "w", "-", "g", "a", "p" >>
RowGapMarker == << "-", "-", "r", "o", "w", "-", "g", "a", "p" >>
Hue == << "h", "u", "e" >>
StyleNames == { RowGapCamel, RowGapHyphen, RowGapMarker, Hue }

\* the values client code assigns: '10px', ' 2em ' and ''
TenPx == << "1", "0", "p", "x" >>
TwoEmSpaced == << " ", "2", "e", "m", " " >>
StyleValues == { TenPx, TwoEmSpaced, << >> }

\* client code assigns variables[prop] = value
VariablesSet ==
    \E prop \in StyleNames, value \in StyleValues :
        Commit(variablesSet(Machine, prop, value), "variables.set",
               [NoArguments EXCEPT !.name = prop, !.cssValue = value])

\* client code reads variables[prop]
VariablesGet ==
    \E prop \in StyleNames :
        Commit(variablesGet(Machine, prop), "variables.get",
               [NoArguments EXCEPT !.name = prop])

\* client code evaluates prop in variables
VariablesHas ==
    \E prop \in StyleNames :
        Commit(variablesHas(Machine, prop), "variables.has",
               [NoArguments EXCEPT !.name = prop])

\* client code deletes prop on the proxy itself, the prototype of variables
VariablesDeleteProperty ==
    \E prop \in StyleNames :
        Commit(variablesDeleteProperty(Machine, prop), "proxy.deleteProperty",
               [NoArguments EXCEPT !.name = prop])

\* client code enumerates the keys of variables with for...in
VariablesOwnKeys ==
    Commit(variablesOwnKeys(Machine), "variables.ownKeys", NoArguments)

\* client code evaluates delete variables[prop]
VariablesDelete ==
    \E prop \in StyleNames :
        Commit(variablesDelete(Machine, prop), "variables.delete",
               [NoArguments EXCEPT !.name = prop])

\* the keys and values of the mappings client code assigns
AssignedKeys == { RowGapCamel, Hue }
AssignedValues == { TenPx, UndefinedValue }

\* the mappings client code assigns: Object.entries lists one or two keys
\* in the order of their insertion
AssignedMappings ==
    { e \in UNION { [1..n -> [key : AssignedKeys, val : AssignedValues]] :
                      n \in 1..2 } :
        \A i, j \in DOMAIN e : i # j => e[i].key # e[j].key }

\* the values client code assigns that are no mappings: null, 'x' and 7
AssignedNonObjects == { NullValue, StringValue(<< "x" >>), NumberValue }

\* client code assigns component.variables = value
AssignVariables ==
    \E value \in { ObjectValue(e) : e \in AssignedMappings }
                    \cup AssignedNonObjects :
        Commit(applyVariablesTo_set(Machine, value), "variables.assign",
               [NoArguments EXCEPT !.assigned = value.entries,
                                   !.kind = value.kind])

\* the characters of the names given to normalizeProp and denormalizeProp:
\* letters of both cases and a digit for the external camel form, lower
\* case letters, a digit and the hyphen for the internal form
CamelChars == { "a", "g", "A", "G", "2" }
HyphenChars == { "a", "g", "2", "-" }

\* the names of one to MaxNameLen of the characters
NamesOver(chars) == UNION { [1..n -> chars] : n \in 1..MaxNameLen }

\* external names in camel form
ExternalNames == NamesOver(CamelChars)

\* internal names in hyphen form; an internal name has no leading '--'
InternalNames == { y \in NamesOver(HyphenChars) : ~startsWithMarker(y) }

\* client code calls styleManager.normalizeProp(prop) with an external
\* name, with and without the leading '--'
NormalizeProp ==
    \E x \in ExternalNames, marker \in { << >>, << "-", "-" >> } :
        Commit([Machine EXCEPT !.returned = normalizeProp(marker \o x)],
               "normalizeProp", [NoArguments EXCEPT !.name = marker \o x])

\* client code calls styleManager.denormalizeProp(prop) with an internal
\* name
DenormalizeProp ==
    \E y \in InternalNames :
        Commit([Machine EXCEPT !.returned = denormalizeProp(y)],
               "denormalizeProp", [NoArguments EXCEPT !.name = y])

(***************************************************************************)
(* Specifications.  Next is every call; the specifications below keep the  *)
(* calls one part of the component is about.                               *)
(***************************************************************************)
Next ==
    \/ QueueCommand
    \/ Mount
    \/ Unmount
    \/ SetAttribute
    \/ RemoveAttribute
    \/ SetState
    \/ SetMultipleState
    \/ On
    \/ Off
    \/ VariablesSet
    \/ VariablesGet
    \/ VariablesHas
    \/ VariablesDeleteProperty
    \/ VariablesOwnKeys
    \/ VariablesDelete
    \/ AssignVariables
    \/ NormalizeProp
    \/ DenormalizeProp
    \/ Part000QueueCommand
    \/ ShadowAppend
    \/ BuildDOM
    \/ Part000BuildDOM
    \/ SetObservedAttribute
    \/ StateProxySet
    \/ AddEventListener
    \/ RemoveEventListener

Spec == Init /\ [][Next]_vars

\* state written through setState and through the state proxy
NextStateProxy ==
    \/ SetState
    \/ StateProxySet

SpecStateProxy == Init /\ [][NextStateProxy]_vars

\* the attributes of a component written from outside it
NextHandlers ==
    \/ SetAttribute
    \/ RemoveAttribute
    \/ SetObservedAttribute

SpecHandlers == Init /\ [][NextHandlers]_vars

\* the attributes of an AquaButton over mounts and unmounts
NextDisabled ==
    \/ SetAttribute
    \/ RemoveAttribute
    \/ Mount
    \/ Unmount

InitAquaButton == Init /\ klass = "AquaButton"

SpecDisabled == InitAquaButton /\ [][NextDisabled]_vars

\* the command queue over mounts and unmounts
NextLifecycle ==
    \/ QueueCommand
    \/ Mount
    \/ Unmount

SpecLifecycle == Init /\ [][NextLifecycle]_vars

\* the command queue of both copies of the base
NextQueue ==
    \/ QueueCommand
    \/ Part000QueueCommand
    \/ Mount
    \/ Unmount

\* a Widget on either copy of the base, constructed without attributes
InitQueue ==
    /\ klass \in { "Widget", Part000Widget }
    /\ InitFields
    /\ \A k \in Keys : attrs[k] = Null
    /\ styleText = styles

SpecQueue == InitQueue /\ [][NextQueue]_vars

\* the children of the shadow root of both copies of the base
NextBuildDOM ==
    \/ ShadowAppend
    \/ BuildDOM
    \/ Part000BuildDOM

SpecBuildDOM == InitQueue /\ [][NextBuildDOM]_vars

\* state and attributes of a component that stays where it is
NextAttributes ==
    \/ SetAttribute
    \/ RemoveAttribute
    \/ SetState
    \/ SetMultipleState

SpecAttributes == Init /\ [][NextAttributes]_vars

\* the listeners registry over mounts and unmounts
NextListeners ==
    \/ On
    \/ Off
    \/ Mount
    \/ Unmount

\* a Widget constructed without attributes: its registry starts empty
InitWidget == Init /\ klass = "Widget" /\ \A k \in Keys : attrs[k] = Null

SpecListeners == InitWidget /\ [][NextListeners]_vars

\* the registry written through the patched methods of the element
NextPatched ==
    \/ AddEventListener
    \/ RemoveEventListener
    \/ On
    \/ Off
    \/ Mount
    \/ Unmount

SpecPatched == InitWidget /\ [][NextPatched]_vars

\* registrations made while client code adds an element to the shadow tree
NextSnapshot ==
    \/ On
    \/ Mount
    \/ Unmount
    \/ ShadowAppend

SpecSnapshot == InitWidget /\ [][NextSnapshot]_vars

\* the conversions of names
NextNames ==
    \/ NormalizeProp
    \/ DenormalizeProp

SpecNames == InitWidget /\ [][NextNames]_vars

\* the style variables of a component over mounts and unmounts
NextStyles ==
    \/ VariablesSet
    \/ VariablesGet
    \/ VariablesHas
    \/ VariablesDeleteProperty
    \/ VariablesOwnKeys
    \/ VariablesDelete
    \/ AssignVariables
    \/ Mount
    \/ Unmount

\* the texts styles() returns: none, rules of other selectors only, and a
\* rule of the manager's selector among them
StyleTemplates ==
    { << >>, << BoxSizingRule >>, << HostVariablesRule, BoxSizingRule >> }

\* a Widget constructed without attributes, with any of the style texts
InitStyles ==
    /\ InitComponent
    /\ klass = "Widget"
    /\ \A k \in Keys : attrs[k] = Null
    /\ styleText \in StyleTemplates

SpecStyles == InitStyles /\ [][NextStyles]_vars

\* client code calls queueCommand(command) with a command that returns
QueueReturningCommand ==
    /\ Len(issued) + 1 <= MaxCommands
    /\ Commit(queueCommand(Machine, "returns", "client"), "queueCommand",
              [NoArguments EXCEPT !.command = "returns"])

\* the registry and the queue over mounts and unmounts
NextUnmount ==
    \/ QueueReturningCommand
    \/ On
    \/ Mount
    \/ Unmount

SpecUnmount == InitWidget /\ [][NextUnmount]_vars

(***************************************************************************)
(* The command queue: properties of SpecLifecycle.                         *)
(***************************************************************************)
\* the ids of the commands whose queueCommand call satisfies P, in queue order
IssuedIds(P(_)) ==
    SelectSeq([i \in 1..Len(issued) |-> i], LAMBDA i : P(issued[i]))

\* the ids of those commands in the order the executions were logged
ExecutedIds(P(_)) ==
    LET runs == SelectSeq(executed, LAMBDA e : P(issued[e.id]))
    IN  [j \in 1..Len(runs) |-> runs[j].id]

\* a command queued before the first mount reaction began
QueuedBeforeFirstMount(c) == c.era = 0

\* a command queued after the first mount reaction has completed: by client
\* code once a mount has happened, or by a command a later drain runs
QueuedAfterFirstMount(c) ==
    \/ c.era >= 1 /\ c.by = "client"
    \/ c.era >= 2

\* C1: once the first mount reaction has returned, the commands queued
\* before the first mount have each been executed exactly once, in the order
\* they were queued, all of them by the first mount reaction, and no later
\* mount executes any of them again.
C1_PreMountCommandsDrainOnceFifo ==
    mountCount >= 1 =>
        /\ ExecutedIds(QueuedBeforeFirstMount) = IssuedIds(QueuedBeforeFirstMount)
        /\ \A j \in 1..Len(executed) :
              QueuedBeforeFirstMount(issued[executed[j].id])
                 => executed[j].atMount = 1

\* two commands queued before the first mount have run and the component
\* has been mounted a second time
C1_Witness ==
    /\ mountCount = 2
    /\ lastOp.op = "mount"
    /\ Len(IssuedIds(QueuedBeforeFirstMount)) >= 2
    /\ Len(ExecutedIds(QueuedBeforeFirstMount)) >= 2

C3_ThrowingCommandDoesNotStopDrain ==
    lastOp.op = "mount" =>
        /\ ~lastOp.escaped
        /\ lastOp.renders = 1
        /\ queuedCommands = << >>
        /\ \A id \in 1..Len(issued) :
              \E j \in 1..Len(executed) : executed[j].id = id

\* a mount reaction has run a command that throws and then a later command
C3_Witness ==
    /\ lastOp.op = "mount"
    /\ \E i, j \in 1..Len(executed) :
          /\ i < j
          /\ executed[i].threw
          /\ executed[i].atMount = mountCount
          /\ executed[j].atMount = mountCount

(***************************************************************************)
(* State and attributes: properties of SpecAttributes.                     *)
(***************************************************************************)
\* the last call was an attribute change from outside the component
ExternalChange == lastOp.op \in { "setAttribute", "removeAttribute" }

\* C4 as the specification states it: after the DOM attribute A of an
\* observed name is set to V, state[A] equals V.
C4_StateEqualsAttributeAfterReaction ==
    lastOp.op = "setAttribute" =>
        state[lastOp.arguments.key] = lastOp.arguments.value

\* C4, as the code has it: after the DOM attribute A of an observed name is
\* set to V and the reaction has completed, state[A] equals V unless the
\* change handler the reaction ran wrote state[A] itself; the one handler
\* that does, AquaButton.onDisabledChanged, leaves the boolean true.
C4_StateEqualsAttributeUnlessHandlerWrites ==
    lastOp.op = "setAttribute" =>
        IF lastOp.arguments.key \in lastOp.setStateKeys
        THEN /\ klass = "AquaButton"
             /\ lastOp.arguments.key = AttrDisabled
             /\ state[AttrDisabled] = True
        ELSE state[lastOp.arguments.key] = lastOp.arguments.value

\* the attribute disabled of an AquaButton has been set to a string and the
\* handler has left the boolean in state
C4_Witness ==
    /\ klass = "AquaButton"
    /\ lastOp.op = "setAttribute"
    /\ lastOp.arguments.key = AttrDisabled
    /\ attrs[AttrDisabled] = "large"
    /\ state[AttrDisabled] = True

WrittenKeys(call) ==
    IF call.op = "setState" THEN { call.arguments.key }
    ELSE { call.arguments.entries[i][1] : i \in 1..Len(call.arguments.entries) }

\* C6: a setState or setMultipleState call all of whose keys are not
\* observed attributes changes state at those keys only: no DOM attribute
\* is written, removed or changed, no attribute-change reaction runs, and
\* the queue, the registry and the listeners stay as they were.
C6_NonObservedKeyTouchesOnlyState ==
    [][ ( /\ lastOp'.op \in { "setState", "setMultipleState" }
          /\ WrittenKeys(lastOp') \cap observedAttributes = { } )
        => /\ attrs' = attrs
           /\ lastOp'.attrWrites = 0
           /\ lastOp'.reactions = 0
           /\ \A k \in Keys \ WrittenKeys(lastOp') : state'[k] = state[k]
           /\ UNCHANGED << mounted, mountCount, queuedCommands, issued, executed,
                           listeners, rootListeners, elemListeners, buttonClass >>
      ]_vars

\* setState has written a key that is not an observed attribute
C6_Witness ==
    /\ lastOp.op = "setState"
    /\ lastOp.arguments.key = KeyCount
    /\ KeyCount \notin observedAttributes
    /\ ~lastOp.arguments.skip
    /\ state[KeyCount] = True

\* C7 as the specification states it: one call to setMultipleState results
\* in exactly one render() invocation, whatever its entries.
C7_SetMultipleStateRendersOnce ==
    lastOp.op = "setMultipleState" => lastOp.renders = 1

\* PascalCase of a hyphen-case name: every part capitalised, hyphens dropped
RECURSIVE PascalCase(_, _)
PascalCase(chars, startsPart) ==
    IF chars = << >> THEN << >>
    ELSE IF Head(chars) = "-" THEN PascalCase(Tail(chars), TRUE)
    ELSE << IF startsPart THEN charToUpperCase(Head(chars)) ELSE Head(chars) >>
         \o PascalCase(Tail(chars), FALSE)

\* 'on' + PascalCase(name) + 'Changed'
ExpectedHandlerName(name) ==
    << "o", "n" >> \o PascalCase(Chars(name), TRUE)
       \o << "C", "h", "a", "n", "g", "e", "d" >>

ThrowingHandlerKeys ==
    { k \in observedAttributes :
         /\ localNames[k] \in instanceMethodNames
         /\ instanceMethod(localNames[k]) = "throws" }

\* C9: when the change handler the reaction invokes throws, the exception
\* does not leave the reaction or reach the caller, state keeps the value
\* the reaction stored for the attribute, and the reaction invokes render()
\* exactly once.
C9_ThrowingHandlerIsCaught ==
    /\ lastOp.escapedReactions = 0
    /\ ( /\ lastOp.op \in { "setAttribute", "removeAttribute", "setState" }
         /\ lastOp.arguments.key \in ThrowingHandlerKeys )
       => ~lastOp.escaped
    /\ (ExternalChange /\ lastOp.arguments.key \in ThrowingHandlerKeys)
       => /\ lastOp.reactions = 1
          /\ lastOp.renders = 1
          /\ state[lastOp.arguments.key] =
                (IF lastOp.op = "setAttribute" THEN lastOp.arguments.value ELSE Null)

\* the attribute font-size has been set, its handler has been called and
\* has thrown, and state holds the new value
C9_Witness ==
    /\ lastOp.op = "setAttribute"
    /\ lastOp.arguments.key \in ThrowingHandlerKeys
    /\ Len(lastOp.calls) = 1
    /\ lastOp.renders = 1
    /\ state[lastOp.arguments.key] = "large"

(***************************************************************************)
(* The listeners registry: properties of SpecListeners.                    *)
(***************************************************************************)
\* the registration is attached to each of its targets
Attached(eventName, r) ==
    IF r.selector # Null
    THEN \A t \in 1..Len(querySelectorAll(r.selector)) :
            \E l \in 1..Len(elemListeners[querySelectorAll(r.selector)[t]]) :
               elemListeners[querySelectorAll(r.selector)[t]][l]
                  = domListener(eventName, r.handler, r.options)
    ELSE \E l \in 1..Len(rootListeners) :
            rootListeners[l] = domListener(eventName, r.handler, r.options)

\* C10 as the specification states it: each registration held in the
\* registry is attached to its targets if and only if the component is
\* mounted.
C10_RegistrationsAttachedIffMounted ==
    \A i \in 1..Len(EventNames) :
        \A j \in 1..Len(listeners[EventNames[i]]) :
            Attached(EventNames[i], listeners[EventNames[i]][j]) <=> mounted

\* the set of live attachments: the listeners of the root and of each element
Attachments(root, elems) ==
    { << "root", root[l] >> : l \in 1..Len(root) }
    \cup UNION { { << e, elems[e][l] >> : l \in 1..Len(elems[e]) } :
                    e \in DOMAIN elems }

\* the machine after on(event, sel, handler) immediately followed by
\* off(event, sel, handler)
OnThenOff(eventName, selector, handler) ==
    IF selector = Null
    THEN off(on(Machine, eventName, handler, Undefined, Undefined),
             eventName, handler, Undefined, Undefined)
    ELSE off(on(Machine, eventName, selector, handler, Undefined),
             eventName, selector, handler, Undefined)

\* C11 as the specification states it: in every reachable state, on(event,
\* sel, handler) immediately followed by off(event, sel, handler) leaves
\* the set of live attachments equal to the set before the pair.
C11_OnThenOffRestoresAttachments ==
    \A i \in 1..Len(EventNames), selector \in Selectors \cup {Null},
       handler \in Handlers :
        LET after == OnThenOff(EventNames[i], selector, handler)
        IN  Attachments(after.rootListeners, after.elemListeners)
               = Attachments(rootListeners, elemListeners)

\* the registration matches the selector and handler given to off
MatchesOff(r, call) ==
    r.selector = call.arguments.selector /\ r.handler = call.arguments.handler

AttachedSomewhere(root, elems, eventName, r) ==
    IF r.selector # Null
    THEN \E t \in 1..Len(querySelectorAll(r.selector)) :
            \E l \in 1..Len(elems[querySelectorAll(r.selector)[t]]) :
               elems[querySelectorAll(r.selector)[t]][l]
                  = domListener(eventName, r.handler, r.options)
    ELSE \E l \in 1..Len(root) :
            root[l] = domListener(eventName, r.handler, r.options)

\* C13 as the specification states it: when off removes a registration
\* while the component is mounted, the attachment made for it, with the
\* options it was registered with, is detached from its targets.
C13_OffDetachesWithRegisteredOptions ==
    [][ ( /\ lastOp'.op = "off"
          /\ mounted
          /\ listeners' # listeners )
        => \A k \in 1..Len(listeners[lastOp'.arguments.eventName]) :
              ( /\ MatchesOff(listeners[lastOp'.arguments.eventName][k], lastOp')
                /\ \A j \in 1..(k - 1) :
                      ~MatchesOff(listeners[lastOp'.arguments.eventName][j], lastOp') )
              => ~AttachedSomewhere(rootListeners', elemListeners',
                                    lastOp'.arguments.eventName,
                                    listeners[lastOp'.arguments.eventName][k])
      ]_vars

\* every registration of the registry is attached to each of its targets
AllAttached ==
    \A i \in 1..Len(EventNames) :
        \A j \in 1..Len(listeners[EventNames[i]]) :
            Attached(EventNames[i], listeners[EventNames[i]][j])

\* C14: on() called while the component is not mounted records the
\* registration at the end of listeners[event] and attaches nothing; when
\* the next mount reaction returns, every registration is attached: to the
\* component root when it has no selector, to every element its selector
\* matches otherwise.
C14_UnmountedRegistrationAttachesAtMount ==
    [][ /\ (lastOp'.op = "on" /\ ~mounted)
           => /\ rootListeners' = rootListeners
              /\ elemListeners' = elemListeners
              /\ listeners' = [listeners EXCEPT ![lastOp'.arguments.eventName] =
                    Append(@, [selector |-> lastOp'.arguments.selector,
                               handler |-> lastOp'.arguments.handler,
                               options |-> lastOp'.arguments.options])]
        /\ lastOp'.op = "mount" => AllAttached'
      ]_vars

\* the first mount reaction has attached a registration made before it to
\* both elements its selector matches, and another one to the root
C14_Witness ==
    /\ lastOp.op = "mount"
    /\ mountCount = 1
    /\ \E j \in 1..Len(listeners["click"]) :
          /\ listeners["click"][j].selector = ".btn"
          /\ Attached("click", listeners["click"][j])
    /\ \E j \in 1..Len(listeners["click"]) :
          listeners["click"][j].selector = Null
    /\ rootListeners # << >>
    /\ elemListeners["b1"] # << >>
    /\ elemListeners["b2"] # << >>

\* C15: the unmount reaction detaches every registration from every
\* target and alters nothing else: state, the attributes, the registry
\* (entries and order) and queuedCommands are after it what they were
\* before it, and the mount reaction that follows attaches the same
\* registrations again.
C15_UnmountDetachesAllAndNothingElse ==
    [][ /\ lastOp'.op = "unmount"
           => /\ UNCHANGED << state, attrs, listeners, queuedCommands, issued,
                              executed, mountCount, buttonClass >>
              /\ \A i \in 1..Len(EventNames) :
                    \A j \in 1..Len(listeners[EventNames[i]]) :
                        ~AttachedSomewhere(rootListeners', elemListeners',
                                           EventNames[i], listeners[EventNames[i]][j])
        /\ (lastOp.op = "unmount" /\ lastOp'.op = "mount")
           => listeners' = listeners /\ AllAttached'
      ]_vars

\* an unmount reaction has run with a command in the queue and with one
\* registration on the root and one on the elements: nothing is attached
C15_Witness ==
    /\ lastOp.op = "unmount"
    /\ queuedCommands # << >>
    /\ \E j \in 1..Len(listeners["click"]) : listeners["click"][j].selector = Null
    /\ \E j \in 1..Len(listeners["click"]) : listeners["click"][j].selector = ".btn"
    /\ Attachments(rootListeners, elemListeners) = { }

(***************************************************************************)
(* The style variables: properties of SpecStyles.                          *)
(***************************************************************************)
\* the rules of the manager's selector in a rule list
ScopeRules(rules) ==
    SelectSeq(rules, LAMBDA r : r.selectorText = managerSelector)

\* the value the rule list holds for the variable of a normalized name:
\* NoValue without a rule of the manager's selector, '' when the rule does
\* not set the property
VariableIn(rules, normalized) ==
    IF ScopeRules(rules) = << >> THEN NoValue
    ELSE getPropertyValue(ScopeRules(rules)[1].style, << "-", "-" >> \o normalized)

\* the variable is set: its rule exists and gives it a non-empty value
IsSetIn(rules, normalized) ==
    VariableIn(rules, normalized) \notin { NoValue, << >> }

\* the normalized names of the variables client code uses
NormalizedNames == { RowGapHyphen, Hue }

\* the normalized form of each name client code uses
NormalizedOf(prop) == IF prop = Hue THEN Hue ELSE RowGapHyphen

\* the last call was a call of the variables proxy
StyleOps ==
    { "variables.set", "variables.get", "variables.has", "proxy.deleteProperty",
      "variables.ownKeys", "variables.delete" }

\* C16 as the specification states it: in every state of the style
\* container, connected or not, with or without a rule of the manager's
\* selector, set(N, V) immediately followed by get(N) returns V trimmed,
\* for N in camel form, in hyphen form or with a leading '--'.
C16_SetThenGetReturnsTrimmedValue ==
    \A prop \in StyleNames, value \in StyleValues :
        LET set == variablesSet(Machine, prop, value)
        IN  /\ ~set.thrown
            /\ variablesGet(set, prop).returned = trim(value)

\* C17 as the specification states it: remove(N) for a name that is not
\* set (has(N) is false) returns false, whether or not the rule of the
\* manager's selector exists, and changes no variable.
C17_RemoveUnsetReturnsFalse ==
    [][ ( /\ lastOp'.op = "proxy.deleteProperty"
          /\ variablesHas(Machine, lastOp'.arguments.name).result = False )
        => /\ lastOp'.result = False
           /\ \A n \in NormalizedNames :
                 VariableIn(cssRules', n) = VariableIn(cssRules, n)
      ]_vars

\* C18: remove(N) for a name that is set (has(N) is true) returns true;
\* immediately afterwards has(N) is false, and every other variable, and
\* the rule list, is as it was.
C18_RemoveSetReturnsTrueAndUnsets ==
    [][ ( /\ lastOp'.op = "proxy.deleteProperty"
          /\ variablesHas(Machine, lastOp'.arguments.name).result = True )
        => /\ lastOp'.result = True
           /\ ~lastOp'.escaped
           /\ ~IsSetIn(cssRules', NormalizedOf(lastOp'.arguments.name))
           /\ variablesHas([Machine EXCEPT !.cssRules = cssRules',
                                           !.styleText = styleText'],
                           lastOp'.arguments.name).result = False
           /\ \A n \in NormalizedNames \ { NormalizedOf(lastOp'.arguments.name) } :
                 VariableIn(cssRules', n) = VariableIn(cssRules, n)
           /\ Len(cssRules') = Len(cssRules)
      ]_vars

\* remove has removed the variable row-gap, given in camel form, which was
\* set, and the variable hue keeps its value
C18_Witness ==
    /\ lastOp.op = "proxy.deleteProperty"
    /\ lastOp.arguments.name = RowGapCamel
    /\ lastOp.result = True
    /\ lastOp.previous = TenPx
    /\ VariableIn(cssRules, RowGapHyphen) = << >>
    /\ VariableIn(cssRules, Hue) = << "2", "e", "m" >>

\* the rules the text of the style container holds, connected or not
ContainerRules == parseStyleText(styleText)

SelectorsOf(rules) == [r \in 1..Len(rules) |-> rules[r].selectorText]

\* the selectors of the rules in the text of the style container
TextSelectors(text) == [r \in 1..Len(text) |-> text[r].selector]

\* C20: the container never holds two rules of the manager's selector; a
\* call of the variables proxy inserts a rule only when it is a set() that
\* finds none, and then at the end of the rule list; every other call of
\* the proxy leaves the rules, in the sheet and in the text, as they were.
C20_ScopeRuleCreatedAtMostOnce ==
    [][ /\ Len(ScopeRules(cssRules')) <= 1
        /\ Len(SelectSeq(TextSelectors(styleText'),
                         LAMBDA t : t = managerSelector)) <= 1
        /\ lastOp'.op \in StyleOps
           => IF /\ lastOp'.op = "variables.set"
                 /\ mounted
                 /\ ScopeRules(cssRules) = << >>
              THEN /\ SelectorsOf(cssRules')
                         = Append(SelectorsOf(cssRules), managerSelector)
                   /\ TextSelectors(styleText') = SelectorsOf(cssRules')
              ELSE /\ SelectorsOf(cssRules') = SelectorsOf(cssRules)
                   /\ mounted => TextSelectors(styleText') = SelectorsOf(cssRules)
                   /\ ~mounted => styleText' = styleText
      ]_vars

\* after a second mount a set() has reused the rule an earlier set() put
\* behind the rule of the template: the one rule holds both variables
C20_Witness ==
    /\ lastOp.op = "variables.set"
    /\ mountCount = 2
    /\ SelectorsOf(cssRules) = << "*", managerSelector >>
    /\ IsSetIn(cssRules, RowGapHyphen)
    /\ IsSetIn(cssRules, Hue)

\* the keys a mapping assigns undefined and assigns no value under another
\* form of the same name
DeletedKeys(mapping) ==
    { mapping[i].key : i \in { i \in DOMAIN mapping :
        /\ mapping[i].val = UndefinedValue
        /\ \A j \in DOMAIN mapping :
              NormalizedOf(mapping[j].key) = NormalizedOf(mapping[i].key)
                 => mapping[j].val = UndefinedValue } }

\* the variable of name k is gone: the custom property is not on the rule
\* of the manager's selector, in the sheet and in the text, and has(k) is
\* false
VariableGone(rules, text, k) ==
    /\ VariableIn(rules, NormalizedOf(k)) \in { NoValue, << >> }
    /\ VariableIn(parseStyleText(text), NormalizedOf(k)) \in { NoValue, << >> }

\* C21 as the specification states it: after delete variables[k], and
\* after the assignment of a mapping {k: undefined} to the property
\* applyVariablesTo installs, for a k that is set (has(k) is true), the
\* custom property --k is no longer on the rule of the manager's selector
\* and has(k) is false.
C21_DeleteRemovesVariable ==
    [][ /\ ( /\ lastOp'.op = "variables.delete"
             /\ variablesHas(Machine, lastOp'.arguments.name).result = True )
           => VariableGone(cssRules', styleText', lastOp'.arguments.name)
        /\ lastOp'.op = "variables.assign"
           => \A k \in DeletedKeys(lastOp'.arguments.assigned) :
                 variablesHas(Machine, k).result = True
                    => VariableGone(cssRules', styleText', k)
      ]_vars

(***************************************************************************)
(* The conversion of names: properties of SpecNames.                       *)
(***************************************************************************)
\* C22: denormalizeProp(normalizeProp(x)) = x for every external name x in
\* camel form, normalizeProp('--' + x) = normalizeProp(x), and
\* normalizeProp(denormalizeProp(y)) = y for every internal name y in
\* hyphen form.
C22_NormalizationRoundTrips ==
    /\ ( lastOp.op = "normalizeProp" /\ lastOp.arguments.name \in ExternalNames )
       => /\ denormalizeProp(lastOp.returned) = lastOp.arguments.name
          /\ normalizeProp(<< "-", "-" >> \o lastOp.arguments.name)
                = lastOp.returned
    /\ ( lastOp.op = "normalizeProp" /\ lastOp.arguments.name \notin ExternalNames )
       => lastOp.returned
             = normalizeProp(SubSeq(lastOp.arguments.name, 3,
                                    Len(lastOp.arguments.name)))
    /\ lastOp.op = "denormalizeProp"
       => normalizeProp(lastOp.returned) = lastOp.arguments.name

\* 'aGa' has been normalized to 'a-ga'
C22_Witness ==
    /\ lastOp.op = "normalizeProp"
    /\ lastOp.arguments.name = << "a", "G", "a" >>
    /\ lastOp.returned = << "a", "-", "g", "a" >>

(***************************************************************************)
(* queueCommand: properties of SpecQueue.                                  *)
(***************************************************************************)
\* C23 as the specification states it: queueCommand(x) with an x that is
\* not callable leaves queuedCommands as it was and raises no error; with
\* a callable x it appends x, and nothing else, at the end of
\* queuedCommands.
C23_QueueCommandAppendsCallablesOnly ==
    [][ lastOp'.op = "queueCommand"
        => /\ ~lastOp'.escaped
           /\ IF IsCallable(lastOp'.arguments.command)
              THEN /\ Len(issued') = Len(issued) + 1
                   /\ issued'[Len(issued')].kind = lastOp'.arguments.command
                   /\ queuedCommands' = Append(queuedCommands, Len(issued'))
              ELSE /\ queuedCommands' = queuedCommands
                   /\ issued' = issued
      ]_vars

(***************************************************************************)
(* off without a matching registration: a property of SpecListeners.       *)
(***************************************************************************)
\* C24: off(event, sel, handler) with no registration of that event name,
\* selector and handler raises no error and changes nothing: the registry
\* and the listener lists of the root and of the shadow tree's elements
\* are as they were, and so is every other field.
C24_OffWithoutMatchIsNoOp ==
    [][ ( /\ lastOp'.op = "off"
          /\ \A k \in 1..Len(listeners[lastOp'.arguments.eventName]) :
                ~MatchesOff(listeners[lastOp'.arguments.eventName][k], lastOp') )
        => /\ ~lastOp'.escaped
           /\ listeners' = listeners
           /\ rootListeners' = rootListeners
           /\ elemListeners' = elemListeners
           /\ UNCHANGED << state, attrs, queuedCommands, executed, mounted >>
      ]_vars

\* off(click, '.btn', h1) has been called on a mounted component whose
\* registry is full, so that the call has removed nothing, and which has
\* h1 registered on the root only: h1 is still attached to the root
C24_Witness ==
    /\ lastOp.op = "off"
    /\ lastOp.arguments.selector = ".btn"
    /\ lastOp.arguments.handler = "h1"
    /\ mounted
    /\ registrationCount(listeners) = MaxListeners
    /\ \A k \in 1..Len(listeners["click"]) :
          listeners["click"][k].handler = "h1"
             => listeners["click"][k].selector = Null
    /\ \E l \in 1..Len(rootListeners) : rootListeners[l].callback = "h1"

(***************************************************************************)
(* Construction: a property of SpecAttributes.                             *)
(***************************************************************************)
\* state is seeded: it holds, for every observed attribute name, the value
\* of the attribute, null when the element does not have the attribute
Seeded(s) == \A k \in observedAttributes : s[k] = attrs[k] /\ s[k] # Undefined

\* the steps of the constructor of the given names
StepsNamed(stepNames) ==
    { i \in 1..Len(lastOp.steps) : lastOp.steps[i].step \in stepNames }

\* C25: when the constructor has returned, state holds an entry for every
\* observed attribute name, equal to the value of the attribute at
\* construction, null when the attribute is missing; state has been
\* seeded when buildStyles builds the style manager and when buildDOM
\* materializes the template, and render() has not been called.
C25_StateSeededBeforeStylesAndTemplate ==
    lastOp.op = "constructor"
       => /\ Seeded(state)
          /\ StepsNamed({ "buildStyles" }) # { }
          /\ StepsNamed({ "buildDOM" }) # { }
          /\ \A i \in StepsNamed({ "buildStyles", "buildDOM" }) :
                Seeded(lastOp.steps[i].state)
          /\ lastOp.renders = 0

\* a Widget constructed with the attribute size: state.size is its value
\* and state.color, of an observed attribute the element lacks, is null
C25_Witness ==
    /\ lastOp.op = "constructor"
    /\ attrs[AttrSize] = "large"
    /\ state[AttrSize] = "large"
    /\ AttrColor \in observedAttributes
    /\ state[AttrColor] = Null

(***************************************************************************)
(* buildDOM: a property of SpecBuildDOM.                                   *)
(***************************************************************************)
\* C26 as the specification states it: after buildDOM returns, whatever
\* the shadow root held before and however many top-level elements the
\* template has, the children of the shadow root are the style container
\* followed by every top-level element of the template in template order,
\* and nothing else.
C26_BuildDOMReplacesChildren ==
    [][ lastOp'.op = "buildDOM"
        => shadowChildren'
              = << StyleNode >>
                   \o templateElements(lastOp'.arguments.count,
                                       nextGen(shadowChildren))
      ]_vars

(***************************************************************************)
(* The names of the variables: properties of SpecStyles.                   *)
(***************************************************************************)
\* the external camel form of a custom property of the model's rules
CamelOf(property) ==
    CASE property = << "-", "-" >> \o RowGapHyphen -> RowGapCamel
      [] property = << "-", "-" >> \o Hue -> Hue
      [] property = HostVariablesRule.declarations[1].property
            -> << "h", "r", "H", "e", "i", "g", "h", "t" >>
      [] OTHER -> property

\* the names, in camel form, of the custom properties set on the rule of
\* the manager's selector in a rule list; none without such a rule
NamesSetIn(rules) ==
    IF ScopeRules(rules) = << >> THEN { }
    ELSE { CamelOf(ScopeRules(rules)[1].style[i].name) :
              i \in { i \in 1..Len(ScopeRules(rules)[1].style) :
                        startsWithMarker(ScopeRules(rules)[1].style[i].name) } }

\* the names a call has returned, as a set, and their number
ReturnedNames == { lastOp.names[i] : i \in 1..Len(lastOp.names) }

RanAtThisMount == { e \in 1..Len(executed) : executed[e].atMount = mountCount }

\* C28: within one mount reaction the registrations are attached first, the
\* queued commands are drained next and render() is invoked last: every
\* queued command runs with every registration attached and before the
\* render() call of that reaction, which is made once.
C28_MountAttachesDrainsThenRenders ==
    lastOp.op = "mount" =>
        /\ Len(lastOp.steps) = Cardinality(RanAtThisMount) + 2
        /\ lastOp.steps[1].step = "attachEventListeners"
        /\ lastOp.steps[Len(lastOp.steps)].step = "render"
        /\ lastOp.steps[Len(lastOp.steps)].attached
        /\ \A k \in 2..(Len(lastOp.steps) - 1) :
              /\ lastOp.steps[k].step = "command"
              /\ lastOp.steps[k].attached
              /\ lastOp.steps[k].renders = 0
        /\ lastOp.renders = 1

\* a mount reaction that found a registration not attached, ran two queued
\* commands and rendered
C28_Witness ==
    /\ lastOp.op = "mount"
    /\ ~lastOp.steps[1].attached
    /\ Cardinality(RanAtThisMount) >= 2
    /\ lastOp.steps[2].step = "command"
    /\ lastOp.steps[2].attached
    /\ lastOp.renders = 1


(***************************************************************************)
(* The order of the steps of one attribute-change reaction: properties of *)
(* SpecAttributes.                                                         *)
(***************************************************************************)
\* the steps of the attribute-change reactions of the last call
ReactionSteps ==
    SelectSeq(lastOp.steps,
              LAMBDA s : s.step \in { "changeHandler", "reactionRender" })

\* the steps of the last call at which a change handler was invoked
HandlerSteps == SelectSeq(lastOp.steps, LAMBDA s : s.step = "changeHandler")

\* the attributes whose reaction invokes the handler of this name
AttributesHandledBy(handlerName) ==
    { a \in observedAttributes :
         handlerName = localNames[a] \/ handlerName = Chars(a) }

\* C29: in the attribute-change reaction for attribute A, state[A] equals
\* the new value at the moment the change handler is invoked, and the
\* render() call of the reaction is made after the handler has returned or
\* thrown: every reaction renders once, and the step that follows the
\* invocation of a handler is the render() call of its reaction.
C29_StateStoredBeforeHandlerRenderAfter ==
    /\ Len(HandlerSteps) = Len(lastOp.calls)
    /\ \A i \in 1..Len(HandlerSteps) :
          /\ AttributesHandledBy(lastOp.calls[i].name) # { }
          /\ \A a \in AttributesHandledBy(lastOp.calls[i].name) :
                HandlerSteps[i].state[a] = lastOp.calls[i].newValue
    /\ Cardinality({ k \in 1..Len(ReactionSteps) :
                        ReactionSteps[k].step = "reactionRender" })
          = lastOp.reactions
    /\ \A k \in 1..Len(ReactionSteps) :
          ReactionSteps[k].step = "changeHandler" =>
             /\ k < Len(ReactionSteps)
             /\ ReactionSteps[k + 1].step = "reactionRender"
             /\ ReactionSteps[k + 1].renders >= ReactionSteps[k].renders

\* a reaction whose handler threw: the handler found the new value in state,
\* and the reaction rendered afterwards
C29_Witness ==
    /\ lastOp.op = "setAttribute"
    /\ lastOp.arguments.key = AttrFontSize
    /\ Len(lastOp.calls) = 1
    /\ lastOp.calls[1].name = OnFontSizeChanged
    /\ lastOp.calls[1].oldValue # lastOp.calls[1].newValue
    /\ Len(ReactionSteps) = 2
    /\ ReactionSteps[1].state[AttrFontSize] = "large"
    /\ ReactionSteps[2].step = "reactionRender"
    /\ lastOp.renders = 1


(***************************************************************************)
(* The handler an attribute-change reaction picks: properties of          *)
(* SpecHandlers.                                                           *)
(***************************************************************************)
\* the value the host renderer passes as newValue in the last call
NewValueOfLastOp ==
    IF lastOp.op = "setAttribute" THEN JsString(lastOp.arguments.value) ELSE Null

\* C30: one attribute-change reaction runs at most one handler: the instance
\* method on<PascalCase>Changed when the instance exposes one, the handler
\* stored for the attribute name in attributeHandlers only when there is no
\* such method; when there is neither, the reaction still stores the new
\* value in state and calls render().
C30_AtMostOneHandlerMethodFirst ==
    lastOp.op \in { "setAttribute", "removeAttribute" } =>
        /\ lastOp.reactions = 1
        /\ Len(lastOp.calls) <= 1
        /\ localNames[lastOp.arguments.key] \in instanceMethodNames =>
              /\ Len(lastOp.calls) = 1
              /\ lastOp.calls[1].via = "method"
              /\ lastOp.calls[1].name = localNames[lastOp.arguments.key]
        /\ ( /\ localNames[lastOp.arguments.key] \notin instanceMethodNames
             /\ lastOp.arguments.key \in attributeHandlerNames ) =>
              /\ Len(lastOp.calls) = 1
              /\ lastOp.calls[1].via = "attributeHandlers"
              /\ lastOp.calls[1].name = Chars(lastOp.arguments.key)
        /\ ( /\ localNames[lastOp.arguments.key] \notin instanceMethodNames
             /\ lastOp.arguments.key \notin attributeHandlerNames ) =>
              /\ lastOp.calls = << >>
              /\ state[lastOp.arguments.key] = NewValueOfLastOp
              /\ lastOp.renders = 1

\* a reaction for an attribute that has both a method and a stored handler
\* ran the method, and only the method
C30_Witness ==
    /\ lastOp.op = "setAttribute"
    /\ lastOp.arguments.key \in attributeHandlerNames
    /\ localNames[lastOp.arguments.key] \in instanceMethodNames
    /\ Len(lastOp.calls) = 1
    /\ lastOp.calls[1].via = "method"
    /\ lastOp.renders = 1


(***************************************************************************)
(* The order of the root listeners: properties of SpecListeners.          *)
(***************************************************************************)
\* the place in listeners[eventName] of the first root registration whose
\* listener is this entry of the root's listener list, 0 when there is none
RegistrationIndex(eventName, entry) ==
    LET Registers(j) ==
            /\ listeners[eventName][j].selector = Null
            /\ domListener(eventName, listeners[eventName][j].handler,
                           listeners[eventName][j].options) = entry
    IN  IF \E j \in 1..Len(listeners[eventName]) : Registers(j)
        THEN CHOOSE j \in 1..Len(listeners[eventName]) :
                Registers(j) /\ \A k \in 1..(j - 1) : ~Registers(k)
        ELSE 0

\* C31: after any sequence of on, off, mount and unmount, the root-level
\* handlers attached for one event name are attached (and so fire) in the
\* order in which their registrations appear in listeners[event].
C31_RootListenersInRegistrationOrder ==
    \A i \in 1..Len(EventNames) :
        \A a, b \in 1..Len(rootListeners) :
            ( /\ a < b
              /\ rootListeners[a].type = EventNames[i]
              /\ rootListeners[b].type = EventNames[i]
              /\ RegistrationIndex(EventNames[i], rootListeners[a]) # 0
              /\ RegistrationIndex(EventNames[i], rootListeners[b]) # 0 )
            => RegistrationIndex(EventNames[i], rootListeners[a])
                  < RegistrationIndex(EventNames[i], rootListeners[b])


(***************************************************************************)
(* setState and the reaction it starts: properties of SpecAttributes.     *)
(***************************************************************************)
\* the places in the trace of the last call at which a step of this name
\* begins
StepsNamedAt(name) ==
    { k \in 1..Len(lastOp.steps) : lastOp.steps[k].step = name }

\* C32: setState(key, value) with an observed key and propagation not
\* skipped writes the DOM attribute once, which runs exactly one
\* attribute-change reaction for key: the reaction stores the value, calls
\* the handler and renders before the render() call of setState itself,
\* which is the last thing setState does.
C32_SetStateRunsOneReactionBeforeItsRender ==
    ( /\ lastOp.op = "setState"
      /\ lastOp.arguments.key \in observedAttributes
      /\ ~lastOp.arguments.skip ) =>
        /\ lastOp.attrWrites = 1
        /\ lastOp.reactions = 1
        /\ Cardinality(StepsNamedAt("reactionRender")) = 1
        /\ Len(lastOp.steps) \in StepsNamedAt("setStateRender")
        /\ \A r \in StepsNamedAt("reactionRender") :
              /\ r < Len(lastOp.steps)
              /\ lastOp.steps[r].state[lastOp.arguments.key]
                    \in { JsString(lastOp.arguments.value), True, False }
              /\ lastOp.steps[Len(lastOp.steps)].renders > lastOp.steps[r].renders
              /\ \A h \in StepsNamedAt("changeHandler") :
                    /\ h < r
                    /\ lastOp.steps[h].state[lastOp.arguments.key]
                          = JsString(lastOp.arguments.value)
        /\ lastOp.renders = lastOp.steps[Len(lastOp.steps)].renders + 1

\* a setState of an observed key whose reaction ran a handler and rendered
\* before setState rendered
C32_Witness ==
    /\ lastOp.op = "setState"
    /\ lastOp.arguments.key = AttrSize
    /\ ~lastOp.arguments.skip
    /\ lastOp.arguments.value = True
    /\ Len(lastOp.calls) = 1
    /\ lastOp.steps[1].step = "changeHandler"
    /\ lastOp.steps[1].state[AttrSize] = "true"
    /\ lastOp.steps[2].step = "reactionRender"
    /\ lastOp.steps[3].step = "setStateRender"
    /\ lastOp.renders = 2


(***************************************************************************)
(* The state proxy: properties of SpecStateProxy.                          *)
(***************************************************************************)
\* C33: an assignment through the state proxy, component.state[k] = v, with
\* k an observed attribute sets state[k] to v and writes the DOM attribute
\* k with v.
C33_StateProxySetWritesAttribute ==
    ( /\ lastOp.op = "state.set"
      /\ lastOp.arguments.key \in observedAttributes ) =>
        /\ state[lastOp.arguments.key]
              \in { lastOp.arguments.value, JsString(lastOp.arguments.value) }
        /\ lastOp.attrWrites = 1
        /\ attrs[lastOp.arguments.key] = JsString(lastOp.arguments.value)


(***************************************************************************)
(* Selector registrations and elements added later: properties of         *)
(* SpecSnapshot.                                                           *)
(***************************************************************************)
\* C34: on(event, selector, handler) called while mounted attaches the
\* handler to exactly the descendants that match the selector at that
\* moment; a descendant added later gets no attachment when it is added,
\* and every registration is attached to it by the next mount reaction.
C34_SelectorAttachmentsAreSnapshot ==
    [][ /\ ( /\ lastOp'.op = "on"
             /\ mounted
             /\ lastOp'.arguments.selector # Null ) =>
               \A e \in DOMAIN elemListeners :
                   elemListeners'[e] =
                      IF InShadowTree(e) /\ Matches(e, lastOp'.arguments.selector)
                      THEN domAddEventListener(elemListeners[e],
                              lastOp'.arguments.eventName,
                              lastOp'.arguments.handler,
                              lastOp'.arguments.options)
                      ELSE elemListeners[e]
        /\ lastOp'.op = "shadowRoot.append" =>
               /\ elemListeners' = elemListeners
               /\ ~InShadowTree(LateElement) => elemListeners[LateElement] = << >>
        /\ lastOp'.op = "mount" => AllAttached'
      ]_vars

\* mounted, with a selector registration attached to the elements of the
\* template and not to the matching element that was added after on()
C34_Witness ==
    /\ mounted
    /\ InShadowTree(LateElement)
    /\ lastOp.op = "shadowRoot.append"
    /\ \E j \in 1..Len(listeners["click"]) :
          listeners["click"][j].selector = ".btn"
    /\ elemListeners["b1"] # << >>
    /\ elemListeners["b2"] # << >>
    /\ elemListeners[LateElement] = << >>


(***************************************************************************)
(* The patched methods of the element: properties of SpecPatched.         *)
(***************************************************************************)
\* C35: after construction addEventListener and removeEventListener of the
\* component are on and off: the call adds a registration to, or removes
\* one from, the registry as on and off do; the attach and detach made on
\* the root inside on, off, mount and unmount use the preserved primitives,
\* so on and off are entered once by a call of theirs and never by a mount
\* or an unmount, and no call fails.
C35_PatchedMethodsAreOnAndOff ==
    [][ /\ lastOp'.op = "addEventListener" =>
              /\ listeners' =
                    on(Machine, lastOp'.arguments.eventName,
                       lastOp'.arguments.handler, lastOp'.arguments.options,
                       Undefined).listeners
              /\ listeners'[lastOp'.arguments.eventName] =
                    Append(listeners[lastOp'.arguments.eventName],
                           [selector |-> Null,
                            handler |-> lastOp'.arguments.handler,
                            options |-> lastOp'.arguments.options])
              /\ rootListeners' =
                    IF mounted
                    THEN domAddEventListener(rootListeners,
                            lastOp'.arguments.eventName,
                            lastOp'.arguments.handler, lastOp'.arguments.options)
                    ELSE rootListeners
        /\ lastOp'.op = "removeEventListener" =>
              /\ listeners' =
                    off(Machine, lastOp'.arguments.eventName,
                        lastOp'.arguments.handler, lastOp'.arguments.options,
                        Undefined).listeners
              /\ Len(listeners'[lastOp'.arguments.eventName])
                    = Len(listeners[lastOp'.arguments.eventName])
                      - (IF findIndex(listeners[lastOp'.arguments.eventName],
                                      Null, lastOp'.arguments.handler) = 0
                         THEN 0 ELSE 1)
        /\ lastOp'.entered =
              IF lastOp'.op \in { "on", "off", "addEventListener",
                                  "removeEventListener" }
              THEN 1 ELSE 0
        /\ ~lastOp'.escaped
      ]_vars

\* addEventListener on a mounted component has added a registration, and
\* attached its listener to the root once
C35_Witness ==
    /\ lastOp.op = "addEventListener"
    /\ mounted
    /\ lastOp.entered = 1
    /\ Len(listeners[lastOp.arguments.eventName]) = 1
    /\ listeners[lastOp.arguments.eventName][1].handler = lastOp.arguments.handler
    /\ rootListeners =
          << domListener(lastOp.arguments.eventName, lastOp.arguments.handler,
                         lastOp.arguments.options) >>


(***************************************************************************)
(* The text of the style container after a write: properties of           *)
(* SpecStyles.                                                             *)
(***************************************************************************)
\* the rules of a rule list that are not rules of the manager's selector
OtherRules(rules) == SelectSeq(rules, LAMBDA r : r.selectorText # managerSelector)

\* C36: after every set or remove on the manager, the text of the style
\* container is the serialization of the container's complete current rule
\* list, every rule in order (the rules the text holds are the rules of the
\* sheet, one for one), and the rules other than the rule of the manager's
\* selector are those the text held before the write.
C36_TextIsSerializationOfRules ==
    [][ lastOp'.op \in { "variables.set", "proxy.deleteProperty" } =>
          /\ ~lastOp'.escaped
          /\ Len(styleText') = Len(cssRules')
          /\ parseStyleText(styleText') = cssRules'
          /\ OtherRules(parseStyleText(styleText'))
                = OtherRules(parseStyleText(styleText))
      ]_vars

\* the keys of a mapping that are given a defined value by their last entry
\* under any form of the name
DefinedKeys(mapping) ==
    { i \in DOMAIN mapping :
        /\ mapping[i].val # UndefinedValue
        /\ \A j \in DOMAIN mapping :
              ( j > i /\ NormalizedOf(mapping[j].key) = NormalizedOf(mapping[i].key) )
                 => FALSE }

\* the value of a variable in a rule list, '' for a variable that is not set
\* (with or without a rule of the manager's selector)
ValueIn(rules, normalized) ==
    IF IsSetIn(rules, normalized) THEN trim(VariableIn(rules, normalized))
    ELSE << >>

\* the normalized names a mapping has entries for
MappedNames(mapping) == { NormalizedOf(mapping[i].key) : i \in DOMAIN mapping }

\* C37: the assignment of a mapping M to the property applyVariablesTo
\* installs is a merge: every variable whose name is no key of M keeps its
\* value, every key of M with a defined value has that value afterwards,
\* and the assignment of a value that is no object (null, a string, a
\* number) changes no variable.
C37_AssignmentIsMerge ==
    [][ lastOp'.op = "variables.assign" =>
          LET M == lastOp'.arguments.assigned
              isObject == lastOp'.arguments.kind = "object"
          IN  /\ ~lastOp'.escaped
              /\ \A n \in NormalizedNames :
                    ( ~isObject \/ n \notin MappedNames(M) )
                       => /\ ValueIn(cssRules', n) = ValueIn(cssRules, n)
                          /\ ValueIn(parseStyleText(styleText'), n)
                                = ValueIn(parseStyleText(styleText), n)
              /\ isObject
                    => \A i \in DefinedKeys(M) :
                          ValueIn(cssRules', NormalizedOf(M[i].key))
                             = trim(M[i].val)
      ]_vars

(***************************************************************************)
(* The drain of a mount and the commands enqueued during it: properties    *)
(* of SpecLifecycle.                                                       *)
(***************************************************************************)
\* the commands a command enqueued during the mount that has just returned
EnqueuedDuringMount ==
    { i \in 1..Len(issued) :
        issued[i].by = "command" /\ issued[i].era = mountCount }

\* C38: whenever a mount reaction has returned, queuedCommands is empty; a
\* command that a command enqueued during the drain has been executed in
\* that drain, after every command enqueued before it.
C38_MountLeavesQueueEmpty ==
    lastOp.op = "mount" =>
       /\ queuedCommands = << >>
       /\ \A i \in EnqueuedDuringMount :
             \E k \in 1..Len(executed) :
                /\ executed[k].id = i
                /\ executed[k].atMount = mountCount
                /\ \A earlier \in 1..(i - 1) :
                      \E j \in 1..(k - 1) : executed[j].id = earlier

\* a mount has returned during which a command enqueued another one, while
\* a command enqueued before the mount was waiting behind it
C38_Witness ==
    /\ lastOp.op = "mount"
    /\ \E i \in EnqueuedDuringMount :
          \E earlier \in 1..(i - 1) :
             /\ issued[earlier].by = "client"
             /\ issued[i - 1].kind # "enqueues"
             /\ \E k \in 1..Len(executed) :
                   executed[k].id = earlier /\ executed[k].atMount = mountCount

(***************************************************************************)
(* The class 'disabled' of the inner button of an AquaButton: properties   *)
(* of SpecDisabled.                                                        *)
(***************************************************************************)
\* C39 as the specification states it: whenever an AquaButton is mounted and
\* its mount reaction has completed, the inner button carries the class
\* 'disabled' iff the most recent change of the attribute disabled had a
\* new value that is not null, which is iff the attribute is present (and
\* no class when the attribute has never changed).
C39_DisabledClassFollowsAttribute ==
    mounted => ( buttonClass <=> attrs[AttrDisabled] # Null )

(***************************************************************************)
(* State mutations that skip the attribute: properties of SpecAttributes.  *)
(***************************************************************************)
\* the number of keys the last call was asked to write
WriteCount(call) ==
    IF call.op = "setMultipleState" THEN Len(call.arguments.entries) ELSE 1

\* C40: setState(key, value, true) writes no DOM attribute and runs no
\* attribute-change reaction and no change handler; and, the change
\* handlers mutating state with skipAttrSet = true only, every setState,
\* setMultipleState and attribute change returns after at most one
\* reaction for each key it writes, and no reaction starts while another
\* one is running (the nesting depth is at most 1).
C40_SkippedMutationStartsNoReaction ==
    [][ /\ ( lastOp'.op = "setState" /\ lastOp'.arguments.skip )
           => /\ attrs' = attrs
              /\ lastOp'.attrWrites = 0
              /\ lastOp'.reactions = 0
              /\ lastOp'.calls = << >>
        /\ lastOp'.op \in { "setState", "setMultipleState", "setAttribute",
                            "removeAttribute" }
           => /\ ~lastOp'.escaped
              /\ lastOp'.maxDepth <= 1
              /\ lastOp'.reactions = lastOp'.attrWrites
              /\ lastOp'.reactions <= WriteCount(lastOp')
      ]_vars

\* an attribute change of an AquaButton has run the handler that mutates
\* state with skipAttrSet = true, inside the one reaction of the call
C40_Witness ==
    /\ klass = "AquaButton"
    /\ lastOp.op = "setAttribute"
    /\ lastOp.arguments.key = AttrDisabled
    /\ AttrDisabled \in lastOp.setStateKeys
    /\ state[AttrDisabled] = True
    /\ lastOp.reactions = 1
    /\ lastOp.maxDepth = 1
=============================================================================
